---- MODULE Spec2Model ----
(***************************************************************************)
(* State-machine model of the cholera simulations of this repository:      *)
(*   sim1      src/simulation/sim1.js      one agent, one house, itinerary *)
(*   itinerary src/unnamed/part_000:1-489  ten houses, slider, itinerary   *)
(*   sim2      src/simulation/sim2.js      ten houses, hourly schedule     *)
(*   bathroom  src/unnamed/part_000:490-   hourly schedule, bathroom trips *)
(*   sim5      src/simulation/sim5.js      communities, day activation     *)
(* Each variant is a separate page script; the variable `variant` fixes    *)
(* which one a behaviour runs.                                             *)
(*                                                                         *)
(* Numbers.  Lengths are held in half pixels, so that agent.speed = 1.5 px *)
(* is the integer 3.  All locations of one agent lie on one horizontal     *)
(* line (every y is LineY), where Math.hypot(dx, 0) = |dx| and the         *)
(* normalised step is exact.  Times are held in milliseconds;              *)
(* timeManager.currentSimulationTime (seconds in the source) is held in ms *)
(* and every use divides by 1000 as the source's `deltaTime / 1000` does.  *)
(* The wall clock is held relative to the last reading:                    *)
(* sinceLastTimestamp = performance.now() - lastTimestamp, and             *)
(* lastTimestampIsZero records that lastTimestamp holds the literal 0.     *)
(*                                                                         *)
(* Specifications.  Spec is the page in the browser: the buttons, the      *)
(* slider and the animation frames.  MoveSpec, ClockSpec and ResolveSpec   *)
(* apply single functions of the scripts (updateAgentMovement toward one   *)
(* target; updateTimeManager and the scheduler; resolveItinerary and       *)
(* resolveLocation) to inputs drawn from bounded sets.  GraphSpec is the   *)
(* infection graph of src/tutorial/d3js-infection-graph-tutorial.md,       *)
(* called from the day-change branch and from the reset as the tutorial    *)
(* instructs; no page script of the repository calls it, so infectionData  *)
(* stays empty under the other specifications.  RunSpec is sim1.js with the *)
(* animation loop running (ticks under weak fairness).  TripSpec is the    *)
(* bathroom variant over one simulated day with two values of              *)
(* Math.random(), recording each agent's completed trips of the day.       *)
(***************************************************************************)
EXTENDS Integers, Sequences, FiniteSets, TLC

VARIABLES
    variant,              \* which page script runs
    agents,               \* agent / agents[]
    houses,               \* house / houses[]
    houseWaterBodies,     \* houseWaterBody / houseWaterBodies[]
    schoolWaterBody,      \* schoolWaterBody
    waterbodies,          \* sim5 waterbodies[]
    timeManager,          \* timeManager
    previousDay,          \* previousDay
    activeAgentCount,     \* activeAgentCount
    isRunning,            \* isRunning
    animationId,          \* animationId (0 models null)
    pendingFrames,        \* the browser's pending requestAnimationFrame ids
    sinceLastTimestamp,   \* performance.now() - lastTimestamp
    lastTimestampIsZero,  \* lastTimestamp = 0 (initial value, or set by reset)
    controls,             \* disabled flags of the buttons and the slider
    infectionData,        \* infectionData of the infection graph (tutorial)
    lastEvent             \* the handler that ran last and what it observed

vars == <<variant, agents, houses, houseWaterBodies, schoolWaterBody, waterbodies,
          timeManager, previousDay, activeAgentCount, isRunning, animationId,
          pendingFrames, sinceLastTimestamp, lastTimestampIsZero, controls,
          infectionData, lastEvent>>

----------------------------------------------------------------------------
(* Bounds of the model *)

\* number of houses/agents of the multi-house variants (the source lists 10);
\* agent 0 starts uninfected and agent 1 infected
NumAgents == 2
\* largest timeManager.currentSimulationTime (ms) a tick may reach
MaxSimTime == 10000
\* the same for the bathroom variant, which is explored over four simulated days
\* (a day is 12000 ms) at one frame per simulated hour
MaxBathroomSimTime == 39000
\* largest wall-clock time (ms) the model lets pass while no frame is pending
MaxIdle == 1000
\* Math.random() returns k / RandomResolution, k in 0..RandomResolution-1, in the page
RandomResolution == 1

\* frame-to-frame wall-clock distances (ms) the browser may produce: two short
\* frames and a long one (a stalled or hidden page), longer than houseInfectionDelay
\* and than the 8000 ms of simulated day 1
Deltas == {500, 999, 8500}

\* the same for the bathroom variant: one simulated hour
BathroomDeltas == {500}

\* wall-clock time (ms) that passes in one idle step
IdleSteps == {1000}

\* the frame delta seen when lastTimestamp = 0: the whole wall-clock reading
EpochDeltas == {60000}

Variants == {"sim1", "itinerary", "sim2", "bathroom", "sim5"}

\* JavaScript null (bathroom hours after reset); never equal to an hour
Null == -1

NoValue == <<>>

----------------------------------------------------------------------------
(* Arithmetic helpers *)

Abs(n) == IF n < 0 THEN -n ELSE n

Sign(n) == IF n < 0 THEN -1 ELSE IF n > 0 THEN 1 ELSE 0

\* Math.hypot(dx, dy) on the model's lines, where dx = 0 or dy = 0
Hypot(dx, dy) == Abs(dx) + Abs(dy)

\* Math.ceil(a / b) for b > 0
CeilDiv(a, b) == -((-a) \div b)

----------------------------------------------------------------------------
(* Layout (half pixels, scaled down from the 600 x 400 canvas) *)

LineY == 0

canvasWidth == 24

speed == 3

houseInfectionDelay == 1500

school == [x |-> canvasWidth \div 2, y |-> LineY]

\* school water body: 4 half pixels beyond the school
SchoolWaterOffset == 4

\* house water body: 4 half pixels beside the house
HouseWaterOffset == 4

\* the agent starts 2 half pixels beside its house
AgentOffset == 2

itinerary == <<"school", "schoolWater", "school", "house", "houseWater", "house">>


\* housePosition[index].x / 25 (source: 150, 450, 450, 150, 500, 100, 375, 225, 375, 225)
housePosition == <<6, 18, 18, 6, 20, 4, 15, 9, 15, 9>>

\* sim1: house.x = 100
sim1HouseX == 4

\* the initial slider value
initialActiveAgentCount == 5

scheduleConfig == [schoolStart |-> 8, schoolEnd |-> 17]

bathroomSlots == [school |-> <<12, 13, 14, 15, 16, 17>>, house |-> <<20, 21, 22, 23>>]

\* sim5: communities on the line (source x: canvas.width * 2/4 and canvas.width * 1/8)
communitiesPositions == <<[x |-> (canvasWidth * 2) \div 4, y |-> LineY],
                          [x |-> (canvasWidth * 1) \div 8, y |-> LineY]>>

\* sim5: with two agents per community the circle of generateAgentPositions
\* (angles 0 and pi) lies on the line: centre + radius and centre - radius
AGENTS_PER_COMMUNITY == 2

communityRadius == 4

AgentIds == 0 .. NumAgents - 1

HasHouses == variant \in {"sim1", "itinerary", "sim2", "bathroom"}

HasSlider == variant \in {"itinerary", "sim2", "bathroom"}

HasTimeManager == variant \in {"sim2", "bathroom", "sim5"}

FrameDeltas == IF variant = "bathroom" THEN BathroomDeltas ELSE Deltas

SimTimeCap == IF variant = "bathroom" THEN MaxBathroomSimTime ELSE MaxSimTime

\* array indexes of the running variant
Indexes == DOMAIN agents

----------------------------------------------------------------------------
(* Initial objects *)

Sim1Agent ==
    [x |-> sim1HouseX + AgentOffset, y |-> LineY, speed |-> speed,
     stepIndex |-> 0, isInfected |-> FALSE]

Sim1House == [x |-> sim1HouseX, y |-> LineY, isInfected |-> FALSE]

Sim1HouseWaterBody ==
    [x |-> sim1HouseX - HouseWaterOffset, y |-> LineY,
     isContaminated |-> FALSE, contaminatedTime |-> 0]

Sim1SchoolWaterBody ==
    [x |-> school.x + SchoolWaterOffset, y |-> LineY, isContaminated |-> FALSE]

InitHouses ==
    [index \in AgentIds |->
        [x |-> housePosition[index + 1], y |-> LineY, isInfected |-> FALSE, id |-> index]]

InitHouseWaterBodies ==
    [index \in AgentIds |->
        [x |-> IF InitHouses[index].x > canvasWidth \div 2
                 THEN InitHouses[index].x + HouseWaterOffset
                 ELSE InitHouses[index].x - HouseWaterOffset,
         y |-> LineY, isContaminated |-> FALSE, contaminatedTime |-> 0,
         houseId |-> index]]

ItineraryAgents ==
    [index \in AgentIds |->
        [x |-> InitHouses[index].x + AgentOffset, y |-> LineY, speed |-> speed,
         stepIndex |-> 0, isInfected |-> (index = 1 \/ index = 2),
         houseId |-> index, isActive |-> TRUE]]

Sim2Agents ==
    [index \in AgentIds |->
        [x |-> InitHouses[index].x + AgentOffset, y |-> LineY, speed |-> speed,
         currentLocation |-> "house", targetLocation |-> "house",
         isInfected |-> (index = 1 \/ index = 2),
         houseId |-> index, isActive |-> TRUE, isAtSchool |-> FALSE]]

BathroomAgents ==
    [index \in AgentIds |->
        [x |-> InitHouses[index].x + AgentOffset, y |-> LineY, speed |-> speed,
         currentLocation |-> "house", targetLocation |-> "house",
         isInfected |-> (index = 1 \/ index = 2),
         houseId |-> index, isActive |-> TRUE, isAtSchool |-> FALSE,
         schoolBathroomHour |-> 0, houseBathroomHour |-> 0,
         hasVisitedSchoolBathroomToday |-> FALSE,
         hasVisitedHouseBathroomToday |-> FALSE,
         isTravelingToBathroom |-> FALSE]]

ItinerarySchoolWaterBody ==
    [x |-> school.x + SchoolWaterOffset, y |-> LineY, isContaminated |-> FALSE]

Sim2SchoolWaterBody ==
    [x |-> school.x + SchoolWaterOffset, y |-> LineY, isContaminated |-> FALSE,
     infectedVisitCount |-> 0, contaminationThreshold |-> 2]

BathroomSchoolWaterBody ==
    [x |-> school.x + SchoolWaterOffset, y |-> LineY, isContaminated |-> FALSE,
     infectedVisitCount |-> 0, contaminationThreshold |-> 3]

InitTimeManager ==
    [scheduleStartTime |-> 8, currentSimulationTime |-> 0, timeScale |-> 2,
     currentDay |-> 0]

NumCommunities == Len(communitiesPositions)

Sim5Waterbodies ==
    [index \in 0 .. NumCommunities - 1 |->
        [x |-> communitiesPositions[index + 1].x, y |-> communitiesPositions[index + 1].y,
         communityId |-> index, isContaminated |-> (index = 0),
         contaminationThreshold |-> 3]]

\* generateAgentPositions for count = 2: angle 0 and angle pi
generateAgentPositions(centerX, centerY, radius, i) ==
    [x |-> IF i = 0 THEN centerX + radius ELSE centerX - radius, y |-> centerY]

\* agents.push order: community by community, agentIndex within the community
Sim5Agents ==
    [k \in 0 .. NumCommunities * AGENTS_PER_COMMUNITY - 1 |->
        LET index == k \div AGENTS_PER_COMMUNITY
            agentIndex == k % AGENTS_PER_COMMUNITY
            pos == generateAgentPositions(communitiesPositions[index + 1].x,
                                          communitiesPositions[index + 1].y,
                                          communityRadius, agentIndex)
        IN  [x |-> pos.x, y |-> pos.y, houseX |-> pos.x, houseY |-> pos.y,
             communityId |-> index, agentId |-> agentIndex, speed |-> speed,
             targetCommunityId |-> agentIndex % NumCommunities,
             currentLocation |-> "house", targetLocation |-> "house",
             isInfected |-> FALSE, isActive |-> TRUE, isMobile |-> FALSE]]

\* the flags with the agent at index count active too
updateActiveAgents_inclusive(as, count) ==
    [agentIndex \in DOMAIN as |-> [as[agentIndex] EXCEPT !.isActive = agentIndex <= count]]

\* updateActiveAgents(count): the isActive flags
updateActiveAgents(as, count) ==
    [agentIndex \in DOMAIN as |-> [as[agentIndex] EXCEPT !.isActive = agentIndex < count]]

InitControls ==
    [startDisabled |-> FALSE, pauseDisabled |-> TRUE, resetDisabled |-> TRUE,
     sliderDisabled |-> FALSE]

\* what the last step was: the handler's name, the snaps of the tick, the tick's
\* deltaTime, and for a start (and the tick right after it) the wall-clock time
\* that passed while no frame was pending
Event(name, arrivals, deltaTime, idle) ==
    [name |-> name, arrivals |-> arrivals, deltaTime |-> deltaTime, idle |-> idle]

NoEvent == Event("load", {}, 0, 0)

InitAgents(v) ==
    CASE v = "sim1" -> [i \in {0} |-> Sim1Agent]
      [] v = "itinerary" -> updateActiveAgents(ItineraryAgents, initialActiveAgentCount)
      [] v = "sim2" -> updateActiveAgents(Sim2Agents, initialActiveAgentCount)
      [] v = "bathroom" -> updateActiveAgents(BathroomAgents, initialActiveAgentCount)
      [] v = "sim5" -> Sim5Agents

InitSchoolWaterBody(v) ==
    CASE v = "sim1" -> Sim1SchoolWaterBody
      [] v = "itinerary" -> ItinerarySchoolWaterBody
      [] v = "sim2" -> Sim2SchoolWaterBody
      [] v = "bathroom" -> BathroomSchoolWaterBody
      [] v = "sim5" -> NoValue

InitFor(v) ==
    /\ variant = v
    /\ infectionData = <<>>
    /\ agents = InitAgents(v)
    /\ houses = CASE v = "sim1" -> [i \in {0} |-> Sim1House]
                  [] v = "sim5" -> NoValue
                  [] OTHER -> InitHouses
    /\ houseWaterBodies = CASE v = "sim1" -> [i \in {0} |-> Sim1HouseWaterBody]
                            [] v = "sim5" -> NoValue
                            [] OTHER -> InitHouseWaterBodies
    /\ schoolWaterBody = InitSchoolWaterBody(v)
    /\ waterbodies = IF v = "sim5" THEN Sim5Waterbodies ELSE NoValue
    /\ timeManager = IF v \in {"sim2", "bathroom", "sim5"} THEN InitTimeManager ELSE NoValue
    /\ previousDay = 0
    /\ activeAgentCount = IF v \in {"itinerary", "sim2", "bathroom"}
                            THEN initialActiveAgentCount ELSE 0
    /\ isRunning = FALSE
    /\ animationId = 0
    /\ pendingFrames = {}
    /\ sinceLastTimestamp = 0
    /\ lastTimestampIsZero = TRUE
    /\ controls = InitControls
    /\ lastEvent = NoEvent

Init == \E v \in Variants : InitFor(v)

----------------------------------------------------------------------------
(* Time manager *)

\* totalHours * 1000 = currentSimulationTime (ms) * timeScale
totalHoursMs(tm) == tm.currentSimulationTime * tm.timeScale

\* the hour without the wrap at 24
getCurrentHour_noWrap(tm) == (totalHoursMs(tm) \div 1000) + tm.scheduleStartTime

\* Math.floor(totalHours + scheduleStartTime) % 24
getCurrentHour(tm) == ((totalHoursMs(tm) \div 1000) + tm.scheduleStartTime) % 24

\* sim2.js: Math.floor((totalHours + scheduleStartTime) / 24)
getCurrentDayFloor(tm) == (totalHoursMs(tm) + tm.scheduleStartTime * 1000) \div (24 * 1000)

\* sim5.js and the bathroom variant: Math.ceil((totalHours + scheduleStartTime) / 24)
getCurrentDayCeil(tm) == CeilDiv(totalHoursMs(tm) + tm.scheduleStartTime * 1000, 24 * 1000)

getCurrentDay(tm) ==
    IF variant = "sim2" THEN getCurrentDayFloor(tm) ELSE getCurrentDayCeil(tm)

\* an update that adds the time and leaves the stored day as it was
updateTimeManager_keepsDay(tm, deltaTime) ==
    [tm EXCEPT !.currentSimulationTime = @ + deltaTime]

updateTimeManager(tm, deltaTime) ==
    LET advanced == [tm EXCEPT !.currentSimulationTime = @ + deltaTime]
    IN  [advanced EXCEPT !.currentDay = getCurrentDay(advanced)]

resetTimeManager(tm) == [tm EXCEPT !.currentSimulationTime = 0, !.currentDay = 0]

----------------------------------------------------------------------------
(* Scheduler *)

\* school hours that include the hour schoolEnd
getCurrentScheduleMode_inclusive(currentHour) ==
    IF currentHour >= scheduleConfig.schoolStart /\ currentHour <= scheduleConfig.schoolEnd
      THEN "school"
      ELSE "house"

getCurrentScheduleMode(currentHour) ==
    IF currentHour >= scheduleConfig.schoolStart /\ currentHour < scheduleConfig.schoolEnd
      THEN "school"
      ELSE "house"

\* the label getAgentTargetLocation returns
getAgentTargetLocation(agentInput, tm) ==
    IF ~agentInput.isActive THEN "house"
    ELSE getCurrentScheduleMode(getCurrentHour(tm))

\* the agent as getAgentTargetLocation leaves it (isAtSchool is written for active agents)
agentAfterGetTarget(agentInput, tm) ==
    IF ~agentInput.isActive THEN agentInput
    ELSE [agentInput EXCEPT
            !.isAtSchool = (getCurrentScheduleMode(getCurrentHour(tm)) = "school")]

----------------------------------------------------------------------------
(* The objects a tick works on: w.agents, w.houses, w.houseWaterBodies,   *)
(* w.schoolWaterBody, w.timeManager, and w.arrivals, the snaps of this    *)
(* tick: [agent, label, contaminated] with the water body's flag as the   *)
(* arriving agent finds it.                                               *)

World ==
    [agents |-> agents, houses |-> houses, houseWaterBodies |-> houseWaterBodies,
     schoolWaterBody |-> schoolWaterBody, timeManager |-> timeManager,
     arrivals |-> {}]

\* resolveItinerary with the agent's house as the default branch
resolveItinerary_defaultsHouse(w, labelInput, agentIndex) ==
    CASE labelInput = "school" -> [x |-> school.x, y |-> school.y]
      [] labelInput = "schoolWater" -> [x |-> w.schoolWaterBody.x, y |-> w.schoolWaterBody.y]
      [] labelInput = "houseWater" ->
            [x |-> w.houseWaterBodies[agentIndex].x, y |-> w.houseWaterBodies[agentIndex].y]
      [] OTHER -> [x |-> w.houses[agentIndex].x, y |-> w.houses[agentIndex].y]

resolveItinerary(w, labelInput, agentIndex) ==
    CASE labelInput = "school" -> [x |-> school.x, y |-> school.y]
      [] labelInput = "schoolWater" -> [x |-> w.schoolWaterBody.x, y |-> w.schoolWaterBody.y]
      [] labelInput = "house" -> [x |-> w.houses[agentIndex].x, y |-> w.houses[agentIndex].y]
      [] labelInput = "houseWater" ->
            [x |-> w.houseWaterBodies[agentIndex].x, y |-> w.houseWaterBodies[agentIndex].y]
      [] OTHER -> [x |-> school.x, y |-> school.y]

\* sim5 resolveLocation
resolveLocation(locationLabelInput, agent) ==
    CASE locationLabelInput = "house" -> [x |-> agent.houseX, y |-> agent.houseY]
      [] locationLabelInput = "visitOtherCommunity" ->
            [x |-> communitiesPositions[agent.targetCommunityId + 1].x,
             y |-> communitiesPositions[agent.targetCommunityId + 1].y]
      [] OTHER -> [x |-> agent.houseX, y |-> agent.houseY]

\* the contamination flag of the water body a label names, as an arriving agent finds it
foundContaminated(w, label, agentIndex) ==
    CASE label = "schoolWater" -> w.schoolWaterBody.isContaminated
      [] label = "houseWater" -> w.houseWaterBodies[agentIndex].isContaminated
      [] OTHER -> FALSE

\* agent.x = target.x; agent.y = target.y
snap(w, agentIndex, target, label, contaminated) ==
    [w EXCEPT !.agents[agentIndex].x = target.x,
              !.agents[agentIndex].y = target.y,
              !.arrivals = @ \cup {[agent |-> agentIndex, label |-> label,
                                    contaminated |-> contaminated]}]

\* a step of twice the agent's speed
stepToward_twice(w, agentIndex, target) ==
    LET agent == w.agents[agentIndex]
        dx == target.x - agent.x
        dy == target.y - agent.y
    IN  [w EXCEPT !.agents[agentIndex].x = @ + Sign(dx) * 2 * agent.speed,
                  !.agents[agentIndex].y = @ + Sign(dy) * 2 * agent.speed]

\* a step one half pixel short of the agent's speed
stepToward_short(w, agentIndex, target) ==
    LET agent == w.agents[agentIndex]
        dx == target.x - agent.x
        dy == target.y - agent.y
    IN  [w EXCEPT !.agents[agentIndex].x = @ + Sign(dx) * (agent.speed - 1),
                  !.agents[agentIndex].y = @ + Sign(dy) * (agent.speed - 1)]

\* agent.x += (dx / distance) * speed; agent.y += (dy / distance) * speed
stepToward(w, agentIndex, target) ==
    LET agent == w.agents[agentIndex]
        dx == target.x - agent.x
        dy == target.y - agent.y
    IN  [w EXCEPT !.agents[agentIndex].x = @ + Sign(dx) * agent.speed,
                  !.agents[agentIndex].y = @ + Sign(dy) * agent.speed]

\* a distance one unit short: the snap test becomes distance <= speed
distanceTo_inclusive(w, agentIndex, target) ==
    Hypot(target.x - w.agents[agentIndex].x, target.y - w.agents[agentIndex].y) - 1

distanceTo(w, agentIndex, target) ==
    Hypot(target.x - w.agents[agentIndex].x, target.y - w.agents[agentIndex].y)

----------------------------------------------------------------------------
(* Contamination / infection rules *)

\* variant of checkAgentInfection that copies the water body's flag to the agent
checkAgentInfection_copiesFlag(w, targetLocationInput, agentIndex) ==
    IF targetLocationInput = "schoolWater"
      THEN [w EXCEPT !.agents[agentIndex].isInfected = w.schoolWaterBody.isContaminated]
      ELSE w

\* variant of checkAgentInfection that does not look at the water body's flag
checkAgentInfection_ignoresFlag(w, targetLocationInput, agentIndex) ==
    IF targetLocationInput = "schoolWater"
      THEN [w EXCEPT !.agents[agentIndex].isInfected = TRUE]
      ELSE w

checkAgentInfection(w, targetLocationInput, agentIndex) ==
    IF targetLocationInput = "schoolWater" /\ w.schoolWaterBody.isContaminated
      THEN [w EXCEPT !.agents[agentIndex].isInfected = TRUE]
      ELSE w

\* variant of checkHouseWaterContamination that does not restart the timer
checkHouseWaterContamination_keepsTimer(w, targetLocationInput, agentIndex) ==
    IF targetLocationInput = "houseWater" /\ w.agents[agentIndex].isInfected
      THEN [w EXCEPT !.houseWaterBodies[agentIndex].isContaminated = TRUE]
      ELSE w

\* variant of checkHouseWaterContamination that restarts the house's infection too
checkHouseWaterContamination_restartsHouse(w, targetLocationInput, agentIndex) ==
    IF targetLocationInput = "houseWater" /\ w.agents[agentIndex].isInfected
      THEN [w EXCEPT !.houseWaterBodies[agentIndex].isContaminated = TRUE,
                     !.houseWaterBodies[agentIndex].contaminatedTime = 0,
                     !.houses[agentIndex].isInfected = FALSE]
      ELSE w

\* variant of checkHouseWaterContamination in which any arriving agent contaminates
checkHouseWaterContamination_anyAgent(w, targetLocationInput, agentIndex) ==
    IF targetLocationInput = "houseWater"
      THEN [w EXCEPT !.houseWaterBodies[agentIndex].isContaminated = TRUE,
                     !.houseWaterBodies[agentIndex].contaminatedTime = 0]
      ELSE w

checkHouseWaterContamination(w, targetLocationInput, agentIndex) ==
    IF targetLocationInput = "houseWater" /\ w.agents[agentIndex].isInfected
      THEN [w EXCEPT !.houseWaterBodies[agentIndex].isContaminated = TRUE,
                     !.houseWaterBodies[agentIndex].contaminatedTime = 0]
      ELSE w

\* variant of contaminateSchoolWaterbody that counts every arriving agent
contaminateSchoolWaterbody_countsAll(w, targetLocationInput, agentIndex) ==
    IF /\ targetLocationInput = "schoolWater"
       /\ ~w.schoolWaterBody.isContaminated
      THEN LET counted == [w EXCEPT !.schoolWaterBody.infectedVisitCount = @ + 1]
           IN  IF counted.schoolWaterBody.infectedVisitCount
                    >= counted.schoolWaterBody.contaminationThreshold
                 THEN [counted EXCEPT !.schoolWaterBody.isContaminated = TRUE]
                 ELSE counted
      ELSE w

\* variant of contaminateSchoolWaterbody that goes on counting after the contamination
contaminateSchoolWaterbody_keepsCounting(w, targetLocationInput, agentIndex) ==
    IF /\ targetLocationInput = "schoolWater"
       /\ w.agents[agentIndex].isInfected
      THEN LET counted == [w EXCEPT !.schoolWaterBody.infectedVisitCount = @ + 1]
           IN  IF counted.schoolWaterBody.infectedVisitCount
                    >= counted.schoolWaterBody.contaminationThreshold
                 THEN [counted EXCEPT !.schoolWaterBody.isContaminated = TRUE]
                 ELSE counted
      ELSE w

\* sim2.js and the bathroom variant: visit counting
contaminateSchoolWaterbody(w, targetLocationInput, agentIndex) ==
    IF /\ targetLocationInput = "schoolWater"
       /\ w.agents[agentIndex].isInfected
       /\ ~w.schoolWaterBody.isContaminated
      THEN LET counted == [w EXCEPT !.schoolWaterBody.infectedVisitCount = @ + 1]
           IN  IF counted.schoolWaterBody.infectedVisitCount
                    >= counted.schoolWaterBody.contaminationThreshold
                 THEN [counted EXCEPT !.schoolWaterBody.isContaminated = TRUE]
                 ELSE counted
      ELSE w

\* variant of houseInfectionStep in which infecting the house uses the contamination up
houseInfectionStep_clearsWater(w, agentIndex, deltaTime) ==
    IF w.houseWaterBodies[agentIndex].isContaminated /\ ~w.houses[agentIndex].isInfected
      THEN LET timed == [w EXCEPT !.houseWaterBodies[agentIndex].contaminatedTime =
                                        @ + deltaTime]
           IN  IF timed.houseWaterBodies[agentIndex].contaminatedTime >= houseInfectionDelay
                 THEN [timed EXCEPT !.houses[agentIndex].isInfected = TRUE,
                                    !.houseWaterBodies[agentIndex].isContaminated = FALSE]
                 ELSE timed
      ELSE w

\* variant of houseInfectionStep that compares with > instead of >=
houseInfectionStep_strict(w, agentIndex, deltaTime) ==
    IF w.houseWaterBodies[agentIndex].isContaminated /\ ~w.houses[agentIndex].isInfected
      THEN LET timed == [w EXCEPT !.houseWaterBodies[agentIndex].contaminatedTime =
                                        @ + deltaTime]
           IN  IF timed.houseWaterBodies[agentIndex].contaminatedTime > houseInfectionDelay
                 THEN [timed EXCEPT !.houses[agentIndex].isInfected = TRUE]
                 ELSE timed
      ELSE w

\* one house of updateHouseInfectionState
houseInfectionStep(w, agentIndex, deltaTime) ==
    IF w.houseWaterBodies[agentIndex].isContaminated /\ ~w.houses[agentIndex].isInfected
      THEN LET timed == [w EXCEPT !.houseWaterBodies[agentIndex].contaminatedTime =
                                        @ + deltaTime]
           IN  IF timed.houseWaterBodies[agentIndex].contaminatedTime >= houseInfectionDelay
                 THEN [timed EXCEPT !.houses[agentIndex].isInfected = TRUE]
                 ELSE timed
      ELSE w

\* forEach over the array indexes 0 .. n-1 in order
ForEachIndex(Op(_, _), w, n) ==
    LET run[k \in 0 .. n] == IF k = 0 THEN w ELSE Op(run[k - 1], k - 1)
    IN  run[n]

Count == Cardinality(DOMAIN agents)

\* variant of the sim1 house-infection step that lets the exposure pass unrecorded
Sim1_updateHouseInfectionState_idle(w, deltaTime) == w

\* sim1: the single house
Sim1_updateHouseInfectionState(w, deltaTime) == houseInfectionStep(w, 0, deltaTime)

\* the accumulation run for the houses of inactive agents too
updateHouseInfectionState_allHouses(w, deltaTime) ==
    LET one(v, agentIndex) == houseInfectionStep(v, agentIndex, deltaTime)
    IN  ForEachIndex(one, w, Count)

\* slider variants: the houses of active agents only
updateHouseInfectionState(w, deltaTime) ==
    LET one(v, agentIndex) ==
            IF ~v.agents[agentIndex].isActive THEN v
            ELSE houseInfectionStep(v, agentIndex, deltaTime)
    IN  ForEachIndex(one, w, Count)

----------------------------------------------------------------------------
(* Movement *)

\* variant of the itinerary walk that advances stepIndex without the modulo
itineraryMove_noWrap(w, agentIndex) ==
    LET agent == w.agents[agentIndex]
        label == itinerary[agent.stepIndex + 1]
        target == resolveItinerary(w, label, agentIndex)
    IN  IF distanceTo(w, agentIndex, target) < agent.speed
          THEN LET snapped == snap(w, agentIndex, target, label,
                                   foundContaminated(w, label, agentIndex))
                   checked == checkAgentInfection(snapped, label, agentIndex)
                   watered == checkHouseWaterContamination(checked, label, agentIndex)
               IN  [watered EXCEPT !.agents[agentIndex].stepIndex =
                        IF agent.stepIndex + 1 < Len(itinerary) THEN agent.stepIndex + 1
                        ELSE agent.stepIndex]
          ELSE stepToward(w, agentIndex, target)

\* sim1.js updateAgentMovement for the agent at agentIndex (itinerary walk)
itineraryMove(w, agentIndex) ==
    LET agent == w.agents[agentIndex]
        label == itinerary[agent.stepIndex + 1]
        target == resolveItinerary(w, label, agentIndex)
    IN  IF distanceTo(w, agentIndex, target) < agent.speed
          THEN LET snapped == snap(w, agentIndex, target, label,
                                   foundContaminated(w, label, agentIndex))
                   checked == checkAgentInfection(snapped, label, agentIndex)
                   watered == checkHouseWaterContamination(checked, label, agentIndex)
               IN  [watered EXCEPT !.agents[agentIndex].stepIndex =
                                        (agent.stepIndex + 1) % Len(itinerary)]
          ELSE stepToward(w, agentIndex, target)

Sim1_updateAgentMovement(w) == itineraryMove(w, 0)

Itin_updateAgentMovement(w) ==
    LET one(v, agentIndex) ==
            IF ~v.agents[agentIndex].isActive THEN v ELSE itineraryMove(v, agentIndex)
    IN  ForEachIndex(one, w, Count)

\* sim2.js updateAgentMovement: the arrival rules are commented out in the source
Sim2_updateAgentMovement(w) ==
    LET one(v, agentIndex) ==
            IF ~v.agents[agentIndex].isActive THEN v
            ELSE
              LET scheduledTarget == getAgentTargetLocation(v.agents[agentIndex], v.timeManager)
                  v1 == [v EXCEPT !.agents[agentIndex] =
                            [agentAfterGetTarget(@, v.timeManager)
                                EXCEPT !.targetLocation = scheduledTarget]]
                  agent == v1.agents[agentIndex]
                  target == resolveItinerary(v1, agent.targetLocation, agentIndex)
              IN  IF distanceTo(v1, agentIndex, target) < agent.speed
                    THEN [snap(v1, agentIndex, target, agent.targetLocation,
                               foundContaminated(v1, agent.targetLocation, agentIndex))
                            EXCEPT !.agents[agentIndex].currentLocation = agent.targetLocation]
                    ELSE stepToward(v1, agentIndex, target)
    IN  ForEachIndex(one, w, Count)

shouldVisitBathroom(agent, currentHour) ==
    IF ~agent.isActive THEN "null"
    ELSE IF /\ agent.isAtSchool
            /\ currentHour = agent.schoolBathroomHour
            /\ ~agent.hasVisitedSchoolBathroomToday
      THEN "schoolWater"
    ELSE IF /\ ~agent.isAtSchool
            /\ currentHour = agent.houseBathroomHour
            /\ ~agent.hasVisitedHouseBathroomToday
      THEN "houseWater"
    ELSE "null"

markBathroomVisitComplete(agent, bathroomLocation) ==
    IF bathroomLocation = "schoolWater"
      THEN [agent EXCEPT !.hasVisitedSchoolBathroomToday = TRUE]
    ELSE IF bathroomLocation = "houseWater"
      THEN [agent EXCEPT !.hasVisitedHouseBathroomToday = TRUE]
    ELSE agent

\* bathroom variant: what the snap branch does after the position is set
bathroomArrival(w, agentIndex) ==
    LET located == [w EXCEPT !.agents[agentIndex].currentLocation =
                                  w.agents[agentIndex].targetLocation]
        here == located.agents[agentIndex].currentLocation
    IN  IF ~located.agents[agentIndex].isTravelingToBathroom THEN located
        ELSE
          LET marked == [located EXCEPT !.agents[agentIndex] =
                                            markBathroomVisitComplete(@, here)]
              ruled == IF here = "schoolWater"
                         THEN checkAgentInfection(
                                  contaminateSchoolWaterbody(marked, here, agentIndex),
                                  here, agentIndex)
                       ELSE IF here = "houseWater"
                         THEN checkHouseWaterContamination(marked, here, agentIndex)
                       ELSE marked
          IN  [ruled EXCEPT !.agents[agentIndex].isTravelingToBathroom = FALSE,
                            !.agents[agentIndex].targetLocation =
                                IF ruled.agents[agentIndex].isAtSchool
                                  THEN "school" ELSE "house"]

\* the scheduling part that follows the hourly schedule on a trip under way too
bathroomRetarget_alwaysScheduled(agent0, currentHour, tm) ==
    LET isItBathroomTimeTarget == shouldVisitBathroom(agent0, currentHour)
        agent1 == IF isItBathroomTimeTarget # "null" /\ ~agent0.isTravelingToBathroom
                    THEN [agent0 EXCEPT !.targetLocation = isItBathroomTimeTarget,
                                        !.isTravelingToBathroom = TRUE]
                    ELSE agent0
    IN  IF ~agent1.isTravelingToBathroom \/ agent0.isTravelingToBathroom
          THEN [agentAfterGetTarget(agent1, tm) EXCEPT
                    !.targetLocation = getAgentTargetLocation(agent1, tm)]
          ELSE agent1

\* bathroom variant: the target an agent has after the scheduling part of its turn
bathroomRetarget(agent0, currentHour, tm) ==
    LET isItBathroomTimeTarget == shouldVisitBathroom(agent0, currentHour)
        agent1 == IF isItBathroomTimeTarget # "null" /\ ~agent0.isTravelingToBathroom
                    THEN [agent0 EXCEPT !.targetLocation = isItBathroomTimeTarget,
                                        !.isTravelingToBathroom = TRUE]
                    ELSE agent0
    IN  IF ~agent1.isTravelingToBathroom
          THEN [agentAfterGetTarget(agent1, tm) EXCEPT
                    !.targetLocation = getAgentTargetLocation(agent1, tm)]
          ELSE agent1

Bath_updateAgentMovement(w) ==
    LET currentHour == getCurrentHour(w.timeManager)
        one(v, agentIndex) ==
            IF ~v.agents[agentIndex].isActive THEN v
            ELSE
              LET v1 == [v EXCEPT !.agents[agentIndex] =
                                        bathroomRetarget(@, currentHour, v.timeManager)]
                  agent == v1.agents[agentIndex]
                  target == resolveItinerary(v1, agent.targetLocation, agentIndex)
              IN  IF distanceTo(v1, agentIndex, target) < agent.speed
                    THEN bathroomArrival(
                             snap(v1, agentIndex, target, agent.targetLocation,
                                  foundContaminated(v1, agent.targetLocation, agentIndex)),
                             agentIndex)
                    ELSE stepToward(v1, agentIndex, target)
    IN  ForEachIndex(one, w, Count)

\* sim5 updateAgentMovement; an arrival at 'visitOtherCommunity' is an arrival at the
\* water body of community targetCommunityId, which lies at the community's centre
\* variant of the sim5 movement that moves immobile agents too
Sim5_updateAgentMovement_movesImmobile(w) ==
    LET one(v, agentIndex) ==
            LET agent == v.agents[agentIndex]
                target == resolveLocation(agent.targetLocation, agent)
            IN  IF ~agent.isActive THEN v
                ELSE IF distanceTo(v, agentIndex, target) < agent.speed
                  THEN [snap(v, agentIndex, target, agent.targetLocation,
                             /\ agent.targetLocation = "visitOtherCommunity"
                             /\ waterbodies[agent.targetCommunityId].isContaminated)
                          EXCEPT !.agents[agentIndex].currentLocation = agent.targetLocation,
                                 !.agents[agentIndex].targetLocation =
                                      IF agent.targetLocation = "house"
                                        THEN "visitOtherCommunity" ELSE "house"]
                  ELSE stepToward(v, agentIndex, target)
    IN  ForEachIndex(one, w, Count)

\* variant of the sim5 movement that sends an arrived agent out again, never home
Sim5_updateAgentMovement_neverHome(w) ==
    LET one(v, agentIndex) ==
            LET agent == v.agents[agentIndex]
                target == resolveLocation(agent.targetLocation, agent)
            IN  IF ~agent.isActive \/ ~agent.isMobile THEN v
                ELSE IF distanceTo(v, agentIndex, target) < agent.speed
                  THEN [snap(v, agentIndex, target, agent.targetLocation,
                             /\ agent.targetLocation = "visitOtherCommunity"
                             /\ waterbodies[agent.targetCommunityId].isContaminated)
                          EXCEPT !.agents[agentIndex].currentLocation = agent.targetLocation,
                                 !.agents[agentIndex].targetLocation = "visitOtherCommunity"]
                  ELSE stepToward(v, agentIndex, target)
    IN  ForEachIndex(one, w, Count)

Sim5_updateAgentMovement(w) ==
    LET one(v, agentIndex) ==
            LET agent == v.agents[agentIndex]
                target == resolveLocation(agent.targetLocation, agent)
            IN  IF ~agent.isActive \/ ~agent.isMobile THEN v
                ELSE IF distanceTo(v, agentIndex, target) < agent.speed
                  THEN [snap(v, agentIndex, target, agent.targetLocation,
                             /\ agent.targetLocation = "visitOtherCommunity"
                             /\ waterbodies[agent.targetCommunityId].isContaminated)
                          EXCEPT !.agents[agentIndex].currentLocation = agent.targetLocation,
                                 !.agents[agentIndex].targetLocation =
                                      IF agent.targetLocation = "house"
                                        THEN "visitOtherCommunity" ELSE "house"]
                  ELSE stepToward(v, agentIndex, target)
    IN  ForEachIndex(one, w, Count)

----------------------------------------------------------------------------
(* Daily assignments *)

\* Math.floor(Math.random() * availableSlots.length) for Math.random() = r.k / r.of
assignRandomBathroomSlot(location, r) ==
    LET availableSlots == bathroomSlots[location]
        randomIndex == (r.k * Len(availableSlots)) \div r.of
    IN  availableSlots[randomIndex + 1]

\* the values k / RandomResolution of Math.random()
RandomDraws == {[k |-> k, of |-> RandomResolution] : k \in 0 .. RandomResolution - 1}

\* draws[agentIndex] = the two Math.random() results used for that agent, taken from
\* values; Math.random() is called for active agents only
DrawSetsOver(as, values) ==
    LET unused == CHOOSE r \in values : r.k = 0
    IN  {draws \in [DOMAIN as -> [school : values, house : values]] :
            \A agentIndex \in DOMAIN as :
                ~as[agentIndex].isActive =>
                    draws[agentIndex] = [school |-> unused, house |-> unused]}

DrawSets(as) == DrawSetsOver(as, RandomDraws)

assignDailyBathroomSchedules(as, draws) ==
    [agentIndex \in DOMAIN as |->
        IF ~as[agentIndex].isActive THEN as[agentIndex]
        ELSE [as[agentIndex] EXCEPT
                !.schoolBathroomHour = assignRandomBathroomSlot("school", draws[agentIndex].school),
                !.houseBathroomHour = assignRandomBathroomSlot("house", draws[agentIndex].house),
                !.hasVisitedSchoolBathroomToday = FALSE,
                !.hasVisitedHouseBathroomToday = FALSE]]

\* sim5 activateAgentsForDay
activateAgentsForDay(as, tm) ==
    LET currentDay == getCurrentDayCeil(tm)
    IN  [k \in DOMAIN as |->
            LET first == IF currentDay = 1
                           THEN [as[k] EXCEPT !.isActive = TRUE,
                                              !.isMobile = (as[k].communityId = 0)]
                           ELSE as[k]
            IN  IF currentDay >= 2
                  THEN [first EXCEPT !.isActive = TRUE, !.isMobile = TRUE]
                  ELSE first]

----------------------------------------------------------------------------
(* The browser: animation frames and the wall clock *)

\* the id requestAnimationFrame returns: one no pending request holds
FreshId(pending) == CHOOSE n \in 1 .. Cardinality(pending) + 1 : n \notin pending

\* animationId = requestAnimationFrame(animate)
requestAnimationFrame ==
    /\ animationId' = FreshId(pendingFrames)
    /\ pendingFrames' = pendingFrames \cup {FreshId(pendingFrames)}

\* the same, called from inside the callback of request id
requestNextFrame(id) ==
    /\ animationId' = FreshId(pendingFrames \ {id})
    /\ pendingFrames' = (pendingFrames \ {id}) \cup {FreshId(pendingFrames \ {id})}

\* a cancel that leaves the request pending
cancelAnimationFrame_keepsRequest ==
    UNCHANGED <<pendingFrames, animationId>>

\* cancelAnimationFrame(animationId)
cancelAnimationFrame ==
    /\ pendingFrames' = pendingFrames \ {animationId}
    /\ UNCHANGED animationId

\* variant of the clock read that leaves lastTimestamp as it was
readClock_keepsOld ==
    UNCHANGED <<sinceLastTimestamp, lastTimestampIsZero>>

\* lastTimestamp = performance.now()
readClock ==
    /\ sinceLastTimestamp' = 0
    /\ lastTimestampIsZero' = FALSE

\* lastTimestamp = 0
zeroTimestamp ==
    /\ sinceLastTimestamp' = 0
    /\ lastTimestampIsZero' = TRUE

\* the values timestamp - lastTimestamp can take for a frame d ms after the last event
frameDeltas(d) ==
    IF lastTimestampIsZero THEN EpochDeltas ELSE {sinceLastTimestamp + d}

\* wall-clock time passes while no frame is pending
Idle ==
    /\ pendingFrames = {}
    /\ ~lastTimestampIsZero
    /\ \E d \in IdleSteps :
          /\ sinceLastTimestamp + d <= MaxIdle
          /\ sinceLastTimestamp' = sinceLastTimestamp + d
    /\ lastEvent' = Event("idle", {}, 0, 0)
    /\ UNCHANGED <<variant, infectionData, agents, houses, houseWaterBodies, schoolWaterBody,
                   waterbodies, timeManager, previousDay, activeAgentCount, isRunning,
                   animationId, pendingFrames, lastTimestampIsZero, controls>>

----------------------------------------------------------------------------
(* animate(timestamp) *)

\* the tick with the house-infection step taken before the movement
tickWorld_accumulatesFirst(w, deltaTime) ==
    CASE variant = "sim1" ->
            Sim1_updateAgentMovement(Sim1_updateHouseInfectionState(w, deltaTime))
      [] variant = "itinerary" ->
            Itin_updateAgentMovement(updateHouseInfectionState(w, deltaTime))
      [] variant = "sim2" ->
            Sim2_updateAgentMovement(updateHouseInfectionState(w, deltaTime))
      [] variant = "bathroom" ->
            Bath_updateAgentMovement(updateHouseInfectionState(w, deltaTime))
      [] variant = "sim5" -> Sim5_updateAgentMovement(w)

\* the world after the tick's movement and house-infection steps
tickWorld(w, deltaTime) ==
    CASE variant = "sim1" ->
            Sim1_updateHouseInfectionState(Sim1_updateAgentMovement(w), deltaTime)
      [] variant = "itinerary" ->
            updateHouseInfectionState(Itin_updateAgentMovement(w), deltaTime)
      [] variant = "sim2" ->
            updateHouseInfectionState(Sim2_updateAgentMovement(w), deltaTime)
      [] variant = "bathroom" ->
            updateHouseInfectionState(Bath_updateAgentMovement(w), deltaTime)
      [] variant = "sim5" -> Sim5_updateAgentMovement(w)

storeWorld(w, name, deltaTime) ==
    /\ agents' = w.agents
    /\ houses' = w.houses
    /\ houseWaterBodies' = w.houseWaterBodies
    /\ schoolWaterBody' = w.schoolWaterBody
    /\ timeManager' = w.timeManager
    /\ lastEvent' = Event(name, w.arrivals, deltaTime,
                           IF lastEvent.name = "start" THEN lastEvent.idle ELSE 0)

\* sim1.js and the itinerary variant: move, then accumulate house exposure
animatePlain(deltaTime) ==
    /\ storeWorld(tickWorld(World, deltaTime), "animate", deltaTime)
    /\ UNCHANGED <<previousDay, waterbodies, activeAgentCount>>

\* sim2.js: advance time, move, accumulate
animateSim2(deltaTime) ==
    /\ timeManager.currentSimulationTime + deltaTime <= SimTimeCap
    /\ storeWorld(tickWorld([World EXCEPT !.timeManager = updateTimeManager(@, deltaTime)],
                            deltaTime), "animate", deltaTime)
    /\ UNCHANGED <<previousDay, waterbodies, activeAgentCount>>

\* bathroom variant: advance time, day change (new schedules), move, accumulate
animateBathroom(deltaTime) ==
    /\ timeManager.currentSimulationTime + deltaTime <= SimTimeCap
    /\ LET timed == [World EXCEPT !.timeManager = updateTimeManager(@, deltaTime)]
           currentDay == timed.timeManager.currentDay
       IN  IF currentDay # previousDay
             THEN /\ previousDay' = currentDay
                  /\ \E draws \in DrawSets(agents) :
                        storeWorld(tickWorld([timed EXCEPT !.agents =
                                                 assignDailyBathroomSchedules(@, draws)],
                                             deltaTime), "animate", deltaTime)
             ELSE /\ previousDay' = previousDay
                  /\ storeWorld(tickWorld(timed, deltaTime), "animate", deltaTime)
    /\ UNCHANGED <<waterbodies, activeAgentCount>>

\* sim5.js: advance time, day change (activation), move
animateSim5(deltaTime) ==
    /\ timeManager.currentSimulationTime + deltaTime <= SimTimeCap
    /\ LET timed == [World EXCEPT !.timeManager = updateTimeManager(@, deltaTime)]
           currentDay == getCurrentDay(timed.timeManager)
           dayChanged == currentDay # previousDay
           activated == IF dayChanged
                          THEN [timed EXCEPT !.agents =
                                    activateAgentsForDay(@, timed.timeManager)]
                          ELSE timed
       IN  /\ previousDay' = IF dayChanged THEN currentDay ELSE previousDay
           /\ storeWorld(tickWorld(activated, deltaTime), "animate", deltaTime)
    /\ UNCHANGED <<waterbodies, activeAgentCount>>

\* the browser runs the callback of pending request id, d ms after the last event
Animate(id, d) ==
    /\ id \in pendingFrames
    /\ \E deltaTime \in frameDeltas(d) :
          CASE variant \in {"sim1", "itinerary"} -> animatePlain(deltaTime)
            [] variant = "sim2" -> animateSim2(deltaTime)
            [] variant = "bathroom" -> animateBathroom(deltaTime)
            [] variant = "sim5" -> animateSim5(deltaTime)
    /\ readClock
    /\ requestNextFrame(id)
    /\ UNCHANGED <<variant, infectionData, isRunning, controls>>

----------------------------------------------------------------------------
(* Control handlers.  A button dispatches its click only while it is enabled; *)
(* the slider dispatches its input event only while it is enabled.            *)

\* startSimulation()
startSimulation ==
    IF isRunning
      THEN /\ lastEvent' = Event("start", {}, 0, 0)
           /\ UNCHANGED <<variant, infectionData, agents, houses, houseWaterBodies, schoolWaterBody,
                          waterbodies, timeManager, previousDay, activeAgentCount,
                          isRunning, animationId, pendingFrames, sinceLastTimestamp,
                          lastTimestampIsZero, controls>>
      ELSE /\ isRunning' = TRUE
           /\ controls' = [controls EXCEPT
                             !.startDisabled = TRUE, !.pauseDisabled = FALSE,
                             !.resetDisabled = FALSE,
                             !.sliderDisabled = IF HasSlider THEN TRUE ELSE @]
           /\ CASE variant = "bathroom" ->
                     \E draws \in DrawSets(agents) :
                        agents' = assignDailyBathroomSchedules(agents, draws)
                [] variant = "sim5" -> agents' = activateAgentsForDay(agents, timeManager)
                [] OTHER -> agents' = agents
           /\ readClock
           /\ requestAnimationFrame
           /\ lastEvent' = Event("start", {}, 0, sinceLastTimestamp)
           /\ UNCHANGED <<variant, infectionData, houses, houseWaterBodies, schoolWaterBody,
                          waterbodies,
                          timeManager, previousDay, activeAgentCount>>

\* a pause that leaves the reset button as it was and disables nothing
pauseSimulation_keepsButtons ==
    /\ isRunning
    /\ isRunning' = FALSE
    /\ cancelAnimationFrame
    /\ lastEvent' = Event("pause", {}, 0, 0)
    /\ UNCHANGED <<variant, infectionData, agents, houses, houseWaterBodies, schoolWaterBody,
                   waterbodies, timeManager, previousDay, activeAgentCount,
                   sinceLastTimestamp, lastTimestampIsZero, controls>>

\* pauseSimulation()
pauseSimulation ==
    IF ~isRunning
      THEN /\ lastEvent' = Event("pause", {}, 0, 0)
           /\ UNCHANGED <<variant, infectionData, agents, houses, houseWaterBodies, schoolWaterBody,
                          waterbodies, timeManager, previousDay, activeAgentCount,
                          isRunning, animationId, pendingFrames, sinceLastTimestamp,
                          lastTimestampIsZero, controls>>
      ELSE /\ isRunning' = FALSE
           /\ controls' = [controls EXCEPT
                             !.startDisabled = FALSE, !.pauseDisabled = TRUE,
                             !.resetDisabled = FALSE,
                             !.sliderDisabled = IF HasSlider THEN FALSE ELSE @]
           /\ cancelAnimationFrame
           /\ lastEvent' = Event("pause", {}, 0, 0)
           /\ UNCHANGED <<variant, infectionData, agents, houses, houseWaterBodies, schoolWaterBody,
                          waterbodies, timeManager, previousDay, activeAgentCount,
                          sinceLastTimestamp, lastTimestampIsZero>>

\* sim1.js reset writes houseWaterBody.contaminationTime, a property the object did
\* not have; contaminatedTime keeps its value
Sim1_resetHouseWaterBody(hw) ==
    [f \in DOMAIN hw \cup {"contaminationTime"} |->
        IF f = "contaminationTime" THEN 0
        ELSE IF f = "isContaminated" THEN FALSE
        ELSE hw[f]]

Sim1_resetObjects ==
    /\ agents' = [agents EXCEPT ![0].x = houses[0].x + AgentOffset,
                                ![0].y = LineY,
                                ![0].stepIndex = 0,
                                ![0].isInfected = FALSE]
    /\ schoolWaterBody' = [schoolWaterBody EXCEPT !.isContaminated = FALSE]
    /\ houseWaterBodies' = [houseWaterBodies EXCEPT ![0] = Sim1_resetHouseWaterBody(@)]
    /\ houses' = [houses EXCEPT ![0].isInfected = FALSE]
    /\ UNCHANGED <<timeManager, waterbodies>>

resetHouseWaterBodies ==
    [index \in DOMAIN houseWaterBodies |->
        [houseWaterBodies[index] EXCEPT !.isContaminated = FALSE, !.contaminatedTime = 0]]

resetHouses ==
    [index \in DOMAIN houses |-> [houses[index] EXCEPT !.isInfected = FALSE]]

\* itinerary variant: every agent's isInfected is set to false
Itin_resetObjects ==
    /\ agents' = [index \in DOMAIN agents |->
                    [agents[index] EXCEPT !.x = houses[index].x + AgentOffset,
                                          !.y = LineY,
                                          !.stepIndex = 0,
                                          !.isInfected = FALSE]]
    /\ schoolWaterBody' = [schoolWaterBody EXCEPT !.isContaminated = FALSE]
    /\ houseWaterBodies' = resetHouseWaterBodies
    /\ houses' = resetHouses
    /\ UNCHANGED <<timeManager, waterbodies>>

Sim2_resetObjects ==
    /\ timeManager' = resetTimeManager(timeManager)
    /\ agents' = [index \in DOMAIN agents |->
                    [agents[index] EXCEPT !.x = houses[index].x + AgentOffset,
                                          !.y = LineY,
                                          !.currentLocation = "house",
                                          !.targetLocation = "house",
                                          !.isInfected = (index = 1 \/ index = 2),
                                          !.isAtSchool = FALSE]]
    /\ schoolWaterBody' = [schoolWaterBody EXCEPT !.isContaminated = FALSE,
                                                  !.infectedVisitCount = 0]
    /\ houseWaterBodies' = resetHouseWaterBodies
    /\ houses' = resetHouses
    /\ UNCHANGED waterbodies

\* bathroom variant: previousDay is not written; the schedules are drawn again
Bath_resetObjects ==
    /\ timeManager' = resetTimeManager(timeManager)
    /\ \E draws \in DrawSets(agents) : agents' = assignDailyBathroomSchedules(
                    [index \in DOMAIN agents |->
                        [agents[index] EXCEPT !.x = houses[index].x + AgentOffset,
                                              !.y = LineY,
                                              !.currentLocation = "house",
                                              !.targetLocation = "house",
                                              !.isInfected = (index = 1 \/ index = 2),
                                              !.isAtSchool = FALSE,
                                              !.schoolBathroomHour = Null,
                                              !.houseBathroomHour = Null,
                                              !.hasVisitedSchoolBathroomToday = FALSE,
                                              !.hasVisitedHouseBathroomToday = FALSE,
                                              !.isTravelingToBathroom = FALSE]],
                    draws)
    /\ schoolWaterBody' = [schoolWaterBody EXCEPT !.isContaminated = FALSE,
                                                  !.infectedVisitCount = 0]
    /\ houseWaterBodies' = resetHouseWaterBodies
    /\ houses' = resetHouses
    /\ UNCHANGED waterbodies

\* sim5.js: previousDay and the water bodies are not written
Sim5_resetObjects ==
    /\ agents' = [k \in DOMAIN agents |->
                    [agents[k] EXCEPT !.x = agents[k].houseX,
                                      !.y = agents[k].houseY,
                                      !.currentLocation = "house",
                                      !.targetLocation = "house",
                                      !.isInfected = FALSE,
                                      !.isActive = TRUE,
                                      !.isMobile = FALSE]]
    /\ timeManager' = resetTimeManager(timeManager)
    /\ UNCHANGED <<houses, houseWaterBodies, schoolWaterBody, waterbodies>>

\* resetSimulation()
resetSimulation ==
    /\ isRunning' = FALSE
    /\ controls' = [controls EXCEPT
                      !.startDisabled = FALSE, !.pauseDisabled = TRUE,
                      !.resetDisabled = TRUE,
                      !.sliderDisabled = IF HasSlider THEN FALSE ELSE @]
    /\ cancelAnimationFrame
    /\ CASE variant = "sim1" -> Sim1_resetObjects
         [] variant = "itinerary" -> Itin_resetObjects
         [] variant = "sim2" -> Sim2_resetObjects
         [] variant = "bathroom" -> Bath_resetObjects
         [] variant = "sim5" -> Sim5_resetObjects
    /\ zeroTimestamp
    /\ lastEvent' = Event("reset", {}, 0, 0)
    /\ UNCHANGED <<variant, infectionData, previousDay, activeAgentCount>>

\* slider 'input' listener: updateActiveAgents(parseInt(this.value))
sliderInput(count) ==
    /\ activeAgentCount' = count
    /\ agents' = updateActiveAgents(agents, count)
    /\ lastEvent' = Event("slider", {}, 0, 0)
    /\ UNCHANGED <<variant, infectionData, houses, houseWaterBodies, schoolWaterBody, waterbodies,
                   timeManager, previousDay, isRunning, animationId, pendingFrames,
                   sinceLastTimestamp, lastTimestampIsZero, controls>>

\* sim1.js contaminate button: contaminateSchoolWaterbody() toggles the flag
Sim1_contaminateSchoolWaterbody ==
    /\ schoolWaterBody' = [schoolWaterBody EXCEPT !.isContaminated = ~@]
    /\ lastEvent' = Event("contaminate", {}, 0, 0)
    /\ UNCHANGED <<variant, infectionData, agents, houses, houseWaterBodies, waterbodies,
                   timeManager,
                   previousDay, activeAgentCount, isRunning, animationId, pendingFrames,
                   sinceLastTimestamp, lastTimestampIsZero, controls>>

\* slider positions
SliderValues == 1 .. NumAgents

ClickStart == /\ ~controls.startDisabled
              /\ startSimulation

ClickPause == /\ ~controls.pauseDisabled
              /\ pauseSimulation

ClickReset == /\ ~controls.resetDisabled
              /\ resetSimulation

SlideTo == /\ HasSlider
           /\ ~controls.sliderDisabled
           /\ \E count \in SliderValues : sliderInput(count)

ClickContaminate == /\ variant = "sim1"
                    /\ Sim1_contaminateSchoolWaterbody

Frame == \E id \in pendingFrames, d \in FrameDeltas : Animate(id, d)

Next ==
    \/ Frame
    \/ ClickStart
    \/ ClickPause
    \/ ClickReset
    \/ SlideTo
    \/ ClickContaminate
    \/ Idle

Spec == Init /\ [][Next]_vars

----------------------------------------------------------------------------
(* Properties *)

\* the step just taken is anything but resetSimulation
NotReset == lastEvent'.name # "reset"

\* the step just taken is a tick
Ticked == lastEvent'.name = "animate"

\* C1: in every variant an agent's isInfected, once true, is still true after every
\* tick and every UI action (start, pause, slider, sim1 toggle) other than
\* resetSimulation
C1_AgentInfectionStays ==
    [][NotReset => \A i \in DOMAIN agents :
                      agents[i].isInfected => agents'[i].isInfected]_vars

\* sim1: an infected agent has just arrived at the decontaminated school water body
C1_InfectedAtCleanWater ==
    /\ variant = "sim1"
    /\ agents[0].isInfected
    /\ ~schoolWaterBody.isContaminated
    /\ lastEvent.name = "animate"
    /\ \E a \in lastEvent.arrivals : a.label = "schoolWater"

\* a water body's flag does not go from true to false in the step just taken
SchoolWaterStays ==
    variant # "sim5" => (schoolWaterBody.isContaminated => schoolWaterBody'.isContaminated)

HouseWaterStays ==
    \A i \in DOMAIN houseWaterBodies :
        houseWaterBodies[i].isContaminated => houseWaterBodies'[i].isContaminated

CommunityWaterStays ==
    \A c \in DOMAIN waterbodies :
        waterbodies[c].isContaminated => waterbodies'[c].isContaminated

\* C2 as stated: every water body's isContaminated, once true, is still true after
\* every tick and every UI action other than resetSimulation
C2_WaterStaysContaminated ==
    [][NotReset => SchoolWaterStays /\ HouseWaterStays /\ CommunityWaterStays]_vars

\* C2 amended: the same, except that the sim1 contaminate/decontaminate button
\* toggles the school water body's flag
C2_WaterStaysContaminatedButToggle ==
    [][/\ NotReset => HouseWaterStays /\ CommunityWaterStays
       /\ NotReset /\ lastEvent'.name # "contaminate" => SchoolWaterStays
       /\ lastEvent'.name = "contaminate" =>
              schoolWaterBody'.isContaminated = ~schoolWaterBody.isContaminated]_vars

\* sim1: a tick ran with the school water body and the house water body both
\* contaminated, after the house became infected
C2_ContaminatedAcrossTick ==
    /\ variant = "sim1"
    /\ schoolWaterBody.isContaminated
    /\ houseWaterBodies[0].isContaminated
    /\ houses[0].isInfected
    /\ lastEvent.name = "animate"

\* C3: a house's isInfected goes from false to true only in a tick after which its
\* water body's contaminatedTime is at least houseInfectionDelay (1500 ms), and a
\* contaminated water body whose timer has reached 1500 has an infected house: 1500
\* infects, 1499 does not
C3_HouseInfectedAtDelay ==
    [][\A i \in DOMAIN houses :
          /\ ~houses[i].isInfected /\ houses'[i].isInfected =>
                /\ Ticked
                /\ houseWaterBodies'[i].isContaminated
                /\ houseWaterBodies'[i].contaminatedTime >= 1500
                /\ houseWaterBodies[i].isContaminated
                        => houseWaterBodies[i].contaminatedTime < 1500
          /\ ~houses'[i].isInfected /\ houseWaterBodies'[i].isContaminated =>
                houseWaterBodies'[i].contaminatedTime <= 1499]_vars

\* a house became infected in the tick that brought its timer to exactly 1500
C3_InfectedAtExactly1500 ==
    \E i \in DOMAIN houses :
        /\ houses[i].isInfected
        /\ houseWaterBodies[i].contaminatedTime = 1500
        /\ lastEvent.name = "animate"

Min(a, b) == IF a < b THEN a ELSE b

\* the agents snapped at the school water body in the tick just taken that were
\* infected when the tick began
InfectedSchoolWaterArrivals ==
    {a \in lastEvent'.arrivals : a.label = "schoolWater" /\ agents[a.agent].isInfected}

\* C4: bathroom variant (contaminationThreshold 3): each tick adds to
\* infectedVisitCount the arrivals of infected agents at the school water body and
\* nothing else, up to the threshold; the body is contaminated exactly when the count
\* has reached 3, so the 2nd such arrival leaves it clean and the 3rd contaminates it
C4_ThirdInfectedArrivalContaminates ==
    [][variant = "bathroom" =>
          /\ Ticked => schoolWaterBody'.infectedVisitCount =
                           Min(3, schoolWaterBody.infectedVisitCount
                                    + Cardinality(InfectedSchoolWaterArrivals))
          /\ ~Ticked /\ NotReset => schoolWaterBody'.infectedVisitCount =
                                        schoolWaterBody.infectedVisitCount
          /\ schoolWaterBody'.isContaminated <=> schoolWaterBody'.infectedVisitCount >= 3
          /\ schoolWaterBody'.isContaminated /\ ~schoolWaterBody.isContaminated =>
                /\ schoolWaterBody.infectedVisitCount < 3
                /\ InfectedSchoolWaterArrivals # {}]_vars

\* bathroom variant: the third arrival of an infected agent has just contaminated the
\* school water body, in a tick in which an uninfected agent arrived there too
C4_ThirdArrival ==
    /\ variant = "bathroom"
    /\ schoolWaterBody.isContaminated
    /\ schoolWaterBody.infectedVisitCount = 3
    /\ lastEvent.name = "animate"
    /\ \E a, b \in lastEvent.arrivals :
          /\ a.label = "schoolWater" /\ ~a.contaminated /\ agents[a.agent].isInfected
          /\ b.label = "schoolWater" /\ ~b.contaminated /\ ~agents[b.agent].isInfected

\* C5: an agent snapped, in the tick just taken, at a water body whose isContaminated
\* was true (school water body; sim5: the water body of the community visited) has
\* isInfected true after the tick
C5_ArrivalAtContaminatedWaterInfects ==
    \A a \in lastEvent.arrivals : a.contaminated => agents[a.agent].isInfected

\* the agents are (after the step just taken) where and as they were at first load:
\* position, itinerary / target state, infection flag
AgentsAsLoaded ==
    \A i \in DOMAIN agents :
        LET now == agents'[i]
            loaded == InitAgents(variant)[i]
        IN  /\ now.x = loaded.x /\ now.y = loaded.y
            /\ now.isInfected = loaded.isInfected
            /\ "stepIndex" \in DOMAIN now => now.stepIndex = loaded.stepIndex
            /\ "targetLocation" \in DOMAIN now =>
                  /\ now.targetLocation = loaded.targetLocation
                  /\ now.currentLocation = loaded.currentLocation

\* the same for the water bodies' flags, timers and visit counter and the houses' flags
WaterAndHousesAsLoaded ==
    /\ \A i \in DOMAIN houseWaterBodies :
          /\ ~houseWaterBodies'[i].isContaminated
          /\ houseWaterBodies'[i].contaminatedTime = 0
    /\ \A i \in DOMAIN houses : ~houses'[i].isInfected
    /\ variant # "sim5" =>
          schoolWaterBody'.isContaminated = InitSchoolWaterBody(variant).isContaminated
    /\ variant \in {"sim2", "bathroom"} => schoolWaterBody'.infectedVisitCount = 0
    /\ variant = "sim5" => waterbodies' = Sim5Waterbodies

\* the same for the time manager and the day-change tracker
TimeAsLoaded ==
    HasTimeManager => timeManager' = InitTimeManager /\ previousDay' = 0

\* C6: after resetSimulation the agents' positions and itinerary/target state, all
\* infection and contamination flags, timers and the visit counter, the time manager
\* and the day-change tracker have their values of first load
C6_ResetRestoresLoadedState ==
    [][lastEvent'.name = "reset" =>
          AgentsAsLoaded /\ WaterAndHousesAsLoaded /\ TimeAsLoaded]_vars

\* positions, infection and contamination flags, timers and the time manager are the
\* same after the step just taken
SimulationUnchanged ==
    /\ \A i \in DOMAIN agents :
          /\ agents'[i].x = agents[i].x /\ agents'[i].y = agents[i].y
          /\ agents'[i].isInfected = agents[i].isInfected
    /\ UNCHANGED <<houses, houseWaterBodies, schoolWaterBody, waterbodies, timeManager>>

\* the tick just taken advanced the clocks by its own frame's delta only
TickAddsOneFrame ==
    LET deltaTime == lastEvent'.deltaTime
    IN  /\ deltaTime \in FrameDeltas
        /\ HasTimeManager =>
              timeManager'.currentSimulationTime =
                  timeManager.currentSimulationTime + deltaTime
        /\ \A i \in DOMAIN houseWaterBodies :
              houseWaterBodies'[i].contaminatedTime \in
                  {houseWaterBodies[i].contaminatedTime,
                   houseWaterBodies[i].contaminatedTime + deltaTime, 0, deltaTime}

\* C7: while the simulation is not running no frame is pending and no tick runs;
\* time passing, start and the slider leave positions, flags, timers and the time
\* manager unchanged; and every tick, the first after a resume included, adds one
\* frame's delta to currentSimulationTime and at most that to a contaminatedTime,
\* whatever time passed while paused
C7_PauseStopsTicksNoBacklog ==
    [][/\ ~isRunning => ~Ticked
       /\ ~isRunning' => pendingFrames' = {}
       /\ ~isRunning /\ NotReset /\ lastEvent'.name # "contaminate" => SimulationUnchanged
       /\ Ticked => TickAddsOneFrame]_vars

\* bathroom variant: the first tick after a resume that followed a pause of 1000 ms
\* has brought a contaminated house water body's timer from 500 to 1000
C7_FirstTickAfterResume ==
    /\ variant = "bathroom"
    /\ lastEvent.name = "animate"
    /\ lastEvent.idle = 1000
    /\ lastEvent.deltaTime = 500
    /\ \E i \in DOMAIN houseWaterBodies :
          /\ houseWaterBodies[i].isContaminated
          /\ ~houses[i].isInfected
          /\ houseWaterBodies[i].contaminatedTime = 1000

\* an agent record the movement step skips
Skipped(agent) ==
    \/ "isActive" \in DOMAIN agent /\ ~agent.isActive
    \/ "isMobile" \in DOMAIN agent /\ ~agent.isMobile

\* the step just taken left agent i's x, y, currentLocation and targetLocation alone
AgentStays(i) ==
    /\ agents'[i].x = agents[i].x
    /\ agents'[i].y = agents[i].y
    /\ "targetLocation" \in DOMAIN agents[i] =>
          /\ agents'[i].currentLocation = agents[i].currentLocation
          /\ agents'[i].targetLocation = agents[i].targetLocation

\* C8 as stated: a tick leaves x, y, currentLocation and targetLocation of every agent
\* that is inactive or immobile when the tick begins unchanged
C8_SkippedBeforeTickStays ==
    [][Ticked => \A i \in DOMAIN agents : Skipped(agents[i]) => AgentStays(i)]_vars

\* C8 amended: the same for every agent that is inactive or immobile when the tick's
\* movement step runs, that is after the tick's day-change activation in sim5 (the
\* movement step writes neither flag, so these are the flags after the tick)
C8_SkippedAtMovementStays ==
    [][Ticked => \A i \in DOMAIN agents : Skipped(agents'[i]) => AgentStays(i)]_vars

\* a tick ran in which another agent was snapped somewhere while an agent that is
\* away from its house stayed inactive (slider variants)
C8_InactiveAwayFromHouse ==
    /\ HasSlider
    /\ lastEvent.name = "animate"
    /\ lastEvent.arrivals # {}
    /\ \E i \in DOMAIN agents :
          /\ ~agents[i].isActive
          /\ agents[i].x # houses[i].x + AgentOffset
          /\ agents[i].x # houses[i].x

\* the rule applied to the current objects for an arrival of agent i at its house
\* water body: an infected agent sets the flag and zeroes the timer of its own house
\* water body and nothing else, an uninfected agent changes nothing
HouseWaterRule(i) ==
    LET after == checkHouseWaterContamination(World, "houseWater", i)
    IN  IF agents[i].isInfected
          THEN /\ after.houseWaterBodies[i].isContaminated
               /\ after.houseWaterBodies[i].contaminatedTime = 0
               /\ \A j \in DOMAIN houseWaterBodies \ {i} :
                     after.houseWaterBodies[j] = houseWaterBodies[j]
               /\ after.agents = agents /\ after.houses = houses
               /\ after.schoolWaterBody = schoolWaterBody
          ELSE after = World

\* the agents snapped at their house water body in the tick just taken
HouseWaterArrivals == {a.agent : a \in {b \in lastEvent'.arrivals : b.label = "houseWater"}}

\* the tick just taken, seen from its end: the timer of an infected arriving agent's
\* house water body restarted at 0 and holds what the tick's house-infection step
\* added since; an uninfected arrival left the water body as it was; a water body
\* nobody arrived at kept its flag and was not zeroed
HouseWaterAfterTick ==
    \A i \in DOMAIN houseWaterBodies :
        IF i \in HouseWaterArrivals
          THEN IF agents[i].isInfected
                 THEN /\ houseWaterBodies'[i].isContaminated
                      /\ houseWaterBodies'[i].contaminatedTime =
                             IF houses[i].isInfected THEN 0 ELSE lastEvent'.deltaTime
                 ELSE houseWaterBodies'[i] = houseWaterBodies[i]
          ELSE /\ houseWaterBodies'[i].isContaminated = houseWaterBodies[i].isContaminated
               /\ houseWaterBodies'[i].contaminatedTime \in
                      {houseWaterBodies[i].contaminatedTime,
                       houseWaterBodies[i].contaminatedTime + lastEvent'.deltaTime}

\* C9: an infected agent i arriving at its own house water body sets
\* houseWaterBodies[i].isContaminated and zeroes houseWaterBodies[i].contaminatedTime
\* in the arrival step, already contaminated or not; an uninfected agent's arrival
\* changes nothing; no other agent's house water body is modified
C9_InfectedArrivalRestartsTimer ==
    [][/\ \A i \in DOMAIN houseWaterBodies : HouseWaterRule(i)
       /\ Ticked => HouseWaterAfterTick]_vars

\* an infected agent has just arrived again at its contaminated house water body,
\* whose timer is back at 0
C9_ArrivalAtContaminatedHouseWater ==
    /\ lastEvent.name = "animate"
    /\ \E a \in lastEvent.arrivals :
          /\ a.label = "houseWater"
          /\ a.contaminated
          /\ agents[a.agent].isInfected
          /\ houseWaterBodies[a.agent].isContaminated
          /\ houseWaterBodies[a.agent].contaminatedTime = 0

\* C10: a house's isInfected, once true, is still true after every tick and every UI
\* action other than resetSimulation, and no tick clears a house water body's flag
C10_HouseInfectionStays ==
    [][/\ NotReset => \A i \in DOMAIN houses :
                          houses[i].isInfected => houses'[i].isInfected
       /\ Ticked => HouseWaterStays]_vars

\* slider variants: the slider has just deactivated the agent of an infected house
C10_InfectedHouseOfDeactivatedAgent ==
    /\ HasSlider
    /\ lastEvent.name = "slider"
    /\ \E i \in DOMAIN houses : houses[i].isInfected /\ ~agents[i].isActive

----------------------------------------------------------------------------
(* Movement toward one target                                              *)
(*                                                                         *)
(* updateAgentMovement applied tick after tick to one agent that walks to  *)
(* one target: in sim1.js the agent on its first itinerary step ('school'),*)
(* in sim5.js a mobile agent of community 0 on its visit to community 0.   *)
(* The agent is the only one of the array: the other agents of the variant *)
(* take no part in its movement.                                           *)
(* The start position and the agent's speed are the inputs.  lastEvent     *)
(* also records the start position and the number of movement ticks run.   *)

\* largest distance (half pixels) between the start position and the target
MaxDistance == 201

\* largest agent.speed (half pixels per tick); the source's 1.5 px is 3
MaxSpeed == 3

MoveTarget ==
    IF variant = "sim1" THEN resolveItinerary(World, itinerary[1], 0)
    ELSE resolveLocation("visitOtherCommunity", agents[0])

MoveEvent(from, ticks, arrivals) ==
    [name |-> "move", arrivals |-> arrivals, deltaTime |-> 0, idle |-> 0,
     from |-> from, ticks |-> ticks]

\* the walking agent alone: agents[0] of the variant, placed at `from`
MoveAgents(v, from, agentSpeed) ==
    [agentIndex \in {0} |->
        IF v = "sim1"
          THEN [InitAgents(v)[0] EXCEPT !.x = from, !.speed = agentSpeed]
          ELSE [InitAgents(v)[0] EXCEPT !.x = from, !.speed = agentSpeed,
                                        !.isMobile = TRUE,
                                        !.targetLocation = "visitOtherCommunity"]]

MoveInitFor(v, from, agentSpeed) ==
    /\ variant = v
    /\ infectionData = <<>>
    /\ agents = MoveAgents(v, from, agentSpeed)
    /\ houses = IF v = "sim1" THEN [i \in {0} |-> Sim1House] ELSE NoValue
    /\ houseWaterBodies = IF v = "sim1" THEN [i \in {0} |-> Sim1HouseWaterBody] ELSE NoValue
    /\ schoolWaterBody = InitSchoolWaterBody(v)
    /\ waterbodies = IF v = "sim5" THEN Sim5Waterbodies ELSE NoValue
    /\ timeManager = IF v = "sim5" THEN InitTimeManager ELSE NoValue
    /\ previousDay = 0
    /\ activeAgentCount = 0
    /\ isRunning = TRUE
    /\ animationId = 0
    /\ pendingFrames = {}
    /\ sinceLastTimestamp = 0
    /\ lastTimestampIsZero = TRUE
    /\ controls = InitControls
    /\ lastEvent = MoveEvent(from, 0, {})

MoveInit ==
    \E v \in {"sim1", "sim5"}, distance \in 0 .. MaxDistance, side \in {-1, 1},
       agentSpeed \in 1 .. MaxSpeed :
        MoveInitFor(v, (IF v = "sim1" THEN school.x ELSE communitiesPositions[1].x)
                         + side * distance, agentSpeed)

\* one more movement tick, while the agent has not been snapped onto the target
MoveStore(w) ==
    /\ lastEvent.arrivals = {}
    /\ agents' = w.agents
    /\ houses' = w.houses
    /\ houseWaterBodies' = w.houseWaterBodies
    /\ schoolWaterBody' = w.schoolWaterBody
    /\ lastEvent' = MoveEvent(lastEvent.from, lastEvent.ticks + 1, w.arrivals)
    /\ UNCHANGED <<variant, infectionData, waterbodies, timeManager, previousDay, activeAgentCount,
                   isRunning, animationId, pendingFrames, sinceLastTimestamp,
                   lastTimestampIsZero, controls>>

MoveSim1 == variant = "sim1" /\ MoveStore(Sim1_updateAgentMovement(World))

MoveSim5 == variant = "sim5" /\ MoveStore(Sim5_updateAgentMovement(World))

MoveNext == MoveSim1 \/ MoveSim5

\* the movement ticks keep coming: animate() requests the next frame on every tick
MoveSpec == MoveInit /\ [][MoveNext]_vars /\ WF_vars(MoveNext)

\* the agent has been snapped onto the target
MoveArrived == lastEvent.arrivals # {} /\ agents[0].x = MoveTarget.x /\ agents[0].y = MoveTarget.y

\* the distance between the start position and the target
MoveStartDistance == Abs(MoveTarget.x - lastEvent.from)

\* C11: for a fixed target and a speed S > 0, repeated movement ticks from any start
\* position reach the target in finitely many ticks with the position set exactly
\* to the target; from one tick to the next the distance to the target never
\* increases and the agent never passes beyond the target
C11_MovementReachesTarget ==
    /\ [][LET before == MoveTarget.x - agents[0].x
              after == MoveTarget.x - agents[0]'.x
          IN  /\ Abs(after) <= Abs(before)
              /\ before * after >= 0
              /\ agents[0]'.y = MoveTarget.y
              /\ lastEvent'.arrivals # {} => after = 0
              /\ lastEvent'.ticks * agents[0].speed <= MoveStartDistance + agents[0].speed]_vars
    /\ <>MoveArrived

\* C11 witness: an agent snapped onto the target after walking for several ticks
C11_ArrivedAfterWalking ==
    /\ MoveArrived
    /\ lastEvent.ticks >= 3
    /\ MoveStartDistance % agents[0].speed # 0

\* C12: an agent with speed 1.5 that starts 100 px from a fixed target is snapped
\* onto the target on exactly its 67th movement tick, not earlier and not later
C12_SnappedOn67thTick ==
    (lastEvent.name = "move" /\ agents[0].speed = speed /\ MoveStartDistance = 2 * 100)
        => /\ lastEvent.ticks <= 67
           /\ MoveArrived <=> lastEvent.ticks = 67
           /\ lastEvent.ticks < 67 => agents[0].x # MoveTarget.x

\* C12 witness: the 67th tick of that agent
C12_At67thTick ==
    /\ lastEvent.name = "move"
    /\ agents[0].speed = speed
    /\ MoveStartDistance = 2 * 100
    /\ lastEvent.ticks = 67
    /\ MoveArrived

\* the tick on which the arrival is due: floor(D / S) + 1
MoveArrivalTick == MoveStartDistance \div agents[0].speed + 1

\* C36: for a fixed target at distance D >= 0 and speed S > 0 the arrival (snap and
\* arrival rules) is registered on tick floor(D/S) + 1 exactly: an agent that starts on
\* its target registers its arrival on tick 1, and when D is a multiple of S the agent
\* stands on the target after D/S ticks with no arrival registered yet
C36_ArrivalOnTickFloorPlusOne ==
    lastEvent.name = "move" =>
        /\ lastEvent.ticks <= MoveArrivalTick
        /\ MoveArrived <=> lastEvent.ticks = MoveArrivalTick
        /\ lastEvent.ticks < MoveArrivalTick => lastEvent.arrivals = {}
        /\ (MoveStartDistance % agents[0].speed = 0
              /\ lastEvent.ticks = MoveStartDistance \div agents[0].speed)
             => /\ agents[0].x = MoveTarget.x
                /\ lastEvent.arrivals = {}

\* C36 witness: a start 4 steps of speed 3 away from the target, arrival on tick 5
C36_ArrivedOneTickAfterLanding ==
    /\ lastEvent.name = "move"
    /\ agents[0].speed = 3
    /\ MoveStartDistance = 4 * 3
    /\ lastEvent.ticks = 5
    /\ MoveArrived

----------------------------------------------------------------------------
(* Clock and scheduler                                                     *)
(*                                                                         *)
(* The time manager advanced tick by tick from a first tick of any length, *)
(* and getAgentTargetLocation applied to every agent at the time reached   *)
(* (sim2.js, the bathroom variant; sim5.js has the clock only).  The       *)
(* length of the first tick and the slider value are the inputs.           *)

\* largest deltaTime (ms) of the first tick
MaxClockStart == 499

\* largest timeManager.currentSimulationTime (ms) the clock is advanced to
MaxClockTime == 13000

\* deltaTime of the later ticks: one simulated hour
ClockDeltas == {1000 \div InitTimeManager.timeScale}

ClockEvent(name) == Event(name, {}, 0, 0)

ClockInitFor(v, deltaTime, count) ==
    /\ variant = v
    /\ infectionData = <<>>
    /\ agents = IF v = "sim5" THEN Sim5Agents
                ELSE updateActiveAgents(InitAgents(v), count)
    /\ houses = IF v = "sim5" THEN NoValue ELSE InitHouses
    /\ houseWaterBodies = IF v = "sim5" THEN NoValue ELSE InitHouseWaterBodies
    /\ schoolWaterBody = InitSchoolWaterBody(v)
    /\ waterbodies = IF v = "sim5" THEN Sim5Waterbodies ELSE NoValue
    /\ timeManager = updateTimeManager(InitTimeManager, deltaTime)
    /\ previousDay = 0
    /\ activeAgentCount = IF v = "sim5" THEN 0 ELSE count
    /\ isRunning = TRUE
    /\ animationId = 0
    /\ pendingFrames = {}
    /\ sinceLastTimestamp = 0
    /\ lastTimestampIsZero = FALSE
    /\ controls = InitControls
    /\ lastEvent = ClockEvent("clock")

ClockInit ==
    \E v \in {"sim2", "bathroom", "sim5"}, deltaTime \in 0 .. MaxClockStart,
       count \in 0 .. NumAgents :
        /\ v = "sim5" => count = 0
        /\ ClockInitFor(v, deltaTime, count)

\* updateTimeManager(timeManager, deltaTime)
ClockTick ==
    \E deltaTime \in ClockDeltas :
        /\ timeManager.currentSimulationTime + deltaTime <= MaxClockTime
        /\ timeManager' = updateTimeManager(timeManager, deltaTime)
        /\ lastEvent' = ClockEvent("clock")
        /\ UNCHANGED <<variant, infectionData, agents, houses, houseWaterBodies, schoolWaterBody,
                       waterbodies, previousDay, activeAgentCount, isRunning,
                       animationId, pendingFrames, sinceLastTimestamp,
                       lastTimestampIsZero, controls>>

\* updateAgentMovement's scheduling step for every agent:
\* scheduledTarget = getAgentTargetLocation(agent); agent.targetLocation = scheduledTarget
\* (an inactive agent is skipped before that step)
ClockSchedule ==
    /\ variant \in {"sim2", "bathroom"}
    /\ agents' = [agentIndex \in DOMAIN agents |->
                    IF ~agents[agentIndex].isActive THEN agents[agentIndex]
                    ELSE [agentAfterGetTarget(agents[agentIndex], timeManager)
                            EXCEPT !.targetLocation =
                                getAgentTargetLocation(agents[agentIndex], timeManager)]]
    /\ lastEvent' = ClockEvent("schedule")
    /\ UNCHANGED <<variant, infectionData, houses, houseWaterBodies, schoolWaterBody, waterbodies,
                   timeManager, previousDay, activeAgentCount, isRunning, animationId,
                   pendingFrames, sinceLastTimestamp, lastTimestampIsZero, controls>>

ClockNext == ClockTick \/ ClockSchedule

ClockSpec == ClockInit /\ [][ClockNext]_vars

\* (totalHours + scheduleStartTime) * 1000
ClockTotalMs ==
    timeManager.currentSimulationTime * timeManager.timeScale
        + timeManager.scheduleStartTime * 1000

\* C13: getCurrentHour returns floor(currentSimulationTime * timeScale +
\* scheduleStartTime) mod 24, a value in 0..23 for every non-negative simulation
\* time, and it wraps at 24: with scheduleStartTime 8 and 16.5 simulated hours
\* elapsed it returns 0
C13_HourIsFloorMod24 ==
    lastEvent.name \in {"clock", "schedule"} =>
        LET hour == getCurrentHour(timeManager)
        IN  /\ hour \in 0 .. 23
            /\ \E days \in 0 .. ClockTotalMs \div 24000 :
                    /\ (24 * days + hour) * 1000 <= ClockTotalMs
                    /\ ClockTotalMs < (24 * days + hour + 1) * 1000
            /\ (/\ timeManager.scheduleStartTime = 8
                /\ timeManager.currentSimulationTime * timeManager.timeScale = 16500)
                    => hour = 0

\* C13 witness: 16.5 simulated hours after the start at 8, the hour is 0
C13_HourWrapsToZero ==
    /\ lastEvent.name = "clock"
    /\ timeManager.scheduleStartTime = 8
    /\ timeManager.currentSimulationTime * timeManager.timeScale = 16500
    /\ getCurrentHour(timeManager) = 0

\* the label the scheduler is to return for an agent at an hour
ScheduledLabel(agent, hour) ==
    IF agent.isActive /\ 8 <= hour /\ hour < 17 THEN "school" ELSE "house"

\* C19: for every hour h in 0..23 the scheduler returns 'school' for an active agent
\* iff 8 <= h < 17 and 'house' otherwise (hour 8 is 'school', hour 17 is 'house');
\* for an inactive agent it returns 'house' for every hour
C19_SchoolFrom8To17 ==
    (lastEvent.name \in {"clock", "schedule"} /\ variant \in {"sim2", "bathroom"}) =>
        /\ \A h \in 0 .. 23 :
                getCurrentScheduleMode(h) = IF 8 <= h /\ h < 17 THEN "school" ELSE "house"
        /\ getCurrentScheduleMode(8) = "school"
        /\ getCurrentScheduleMode(17) = "house"
        /\ \A agentIndex \in Indexes :
                /\ getAgentTargetLocation(agents[agentIndex], timeManager)
                        = ScheduledLabel(agents[agentIndex], getCurrentHour(timeManager))
                /\ ~agents[agentIndex].isActive
                        => getAgentTargetLocation(agents[agentIndex], timeManager) = "house"
                /\ (lastEvent.name = "schedule" /\ agents[agentIndex].isActive)
                        => agents[agentIndex].targetLocation
                                = ScheduledLabel(agents[agentIndex], getCurrentHour(timeManager))

\* C19 witness: at hour 17 the scheduler has sent an active agent to its house, and
\* there is an inactive agent as well
C19_ScheduledAtHour17 ==
    /\ lastEvent.name = "schedule"
    /\ getCurrentHour(timeManager) = 17
    /\ \E agentIndex \in Indexes :
            agents[agentIndex].isActive /\ agents[agentIndex].targetLocation = "house"
    /\ \E agentIndex \in Indexes : ~agents[agentIndex].isActive

----------------------------------------------------------------------------
(* Label resolution                                                        *)
(*                                                                         *)
(* resolveItinerary (sim1.js, sim2.js, both scripts of part_000) and       *)
(* resolveLocation (sim5.js) called on the objects of the page as loaded.  *)
(* The label and the agent are the inputs; lastEvent records the call and  *)
(* the coordinates it returned.                                            *)

\* the labels of the sources, and labels no switch names
ResolveLabels ==
    {"school", "schoolWater", "house", "houseWater", "visitOtherCommunity",
     "home", "bathroom", ""}

\* the labels the variant's switch names
KnownLabels ==
    IF variant = "sim5" THEN {"house", "visitOtherCommunity"}
    ELSE {"school", "schoolWater", "house", "houseWater"}

ResolveEvent(name, label, agentIndex, target) ==
    [name |-> name, arrivals |-> {}, deltaTime |-> 0, idle |-> 0,
     label |-> label, agent |-> agentIndex, target |-> target]

ResolveInitFor(v, label, agentIndex) ==
    /\ variant = v
    /\ infectionData = <<>>
    /\ agents = InitAgents(v)
    /\ houses = CASE v = "sim1" -> [i \in {0} |-> Sim1House]
                  [] v = "sim5" -> NoValue
                  [] OTHER -> InitHouses
    /\ houseWaterBodies = CASE v = "sim1" -> [i \in {0} |-> Sim1HouseWaterBody]
                            [] v = "sim5" -> NoValue
                            [] OTHER -> InitHouseWaterBodies
    /\ schoolWaterBody = InitSchoolWaterBody(v)
    /\ waterbodies = IF v = "sim5" THEN Sim5Waterbodies ELSE NoValue
    /\ timeManager = IF v \in {"sim2", "bathroom", "sim5"} THEN InitTimeManager ELSE NoValue
    /\ previousDay = 0
    /\ activeAgentCount = IF v \in {"itinerary", "sim2", "bathroom"}
                            THEN initialActiveAgentCount ELSE 0
    /\ isRunning = FALSE
    /\ animationId = 0
    /\ pendingFrames = {}
    /\ sinceLastTimestamp = 0
    /\ lastTimestampIsZero = TRUE
    /\ controls = InitControls
    /\ lastEvent = ResolveEvent("load", label, agentIndex, NoValue)

ResolveInit ==
    \E v \in Variants, label \in ResolveLabels :
        \E agentIndex \in DOMAIN InitAgents(v) : ResolveInitFor(v, label, agentIndex)

ResolveStore(target) ==
    /\ lastEvent.name = "load"
    /\ lastEvent' = ResolveEvent("resolve", lastEvent.label, lastEvent.agent, target)
    /\ UNCHANGED <<variant, infectionData, agents, houses, houseWaterBodies, schoolWaterBody,
                   waterbodies, timeManager, previousDay, activeAgentCount, isRunning,
                   animationId, pendingFrames, sinceLastTimestamp, lastTimestampIsZero,
                   controls>>

\* const target = resolveItinerary(label, agentIndex)
ResolveItineraryCall ==
    /\ variant # "sim5"
    /\ ResolveStore(resolveItinerary(World, lastEvent.label, lastEvent.agent))

\* const target = resolveLocation(agent.targetLocation, agent)
ResolveLocationCall ==
    /\ variant = "sim5"
    /\ ResolveStore(resolveLocation(lastEvent.label, agents[lastEvent.agent]))

ResolveNext == ResolveItineraryCall \/ ResolveLocationCall

ResolveSpec == ResolveInit /\ [][ResolveNext]_vars

\* a label outside the known set has been resolved
ResolvedUnknown == lastEvent.name = "resolve" /\ lastEvent.label \notin KnownLabels

\* the house (sim5: houseX, houseY) of the agent the call was made for
ResolveHouse ==
    IF variant = "sim5"
      THEN [x |-> agents[lastEvent.agent].houseX, y |-> agents[lastEvent.agent].houseY]
      ELSE [x |-> houses[lastEvent.agent].x, y |-> houses[lastEvent.agent].y]

\* C20 as stated: in every variant a label outside the known set resolves to the
\* agent's house location
C20_UnknownLabelResolvesToHouse ==
    ResolvedUnknown => lastEvent.target = ResolveHouse

\* C20: resolving a label outside the known set leaves the target defined; sim5.js
\* resolveLocation falls back to the agent's house, resolveItinerary of the other
\* variants falls back to the school
C20_UnknownLabelFallsBack ==
    ResolvedUnknown =>
        /\ DOMAIN lastEvent.target = {"x", "y"}
        /\ lastEvent.target.x \in Int
        /\ lastEvent.target.y \in Int
        /\ variant = "sim5" => lastEvent.target = ResolveHouse
        /\ variant # "sim5" => lastEvent.target = [x |-> school.x, y |-> school.y]

\* C20 witness: in sim1.js a label no case names has been resolved to the school,
\* which is not where the house is
C20_UnknownResolvedToSchool ==
    /\ ResolvedUnknown
    /\ variant = "sim1"
    /\ lastEvent.target = [x |-> school.x, y |-> school.y]
    /\ lastEvent.target # ResolveHouse

----------------------------------------------------------------------------
(* Bathroom schedule *)

\* the values of a list
Range(list) == {list[k] : k \in 1 .. Len(list)}

\* C14: in the bathroom-schedule variant each active agent's schoolBathroomHour and
\* houseBathroomHour are drawn once per simulated day (at the tick in which the day
\* changes; the first start draws those of day 0), from the candidate lists 12..17
\* and 20..23; at no other moment, start and pause/resume included, are the hours
\* of an agent that has its hours redrawn or its visited-today flags cleared
C14_SchedulesDrawnOncePerDay ==
    [][(/\ variant = "bathroom"
        /\ NotReset
        /\ ~(lastEvent'.name = "start" /\ timeManager.currentSimulationTime = 0))
        => \A agentIndex \in Indexes :
            (/\ agents[agentIndex].isActive
             /\ agents[agentIndex].schoolBathroomHour \in Range(bathroomSlots.school)
             /\ agents[agentIndex].houseBathroomHour \in Range(bathroomSlots.house)) =>
              /\ agents[agentIndex]'.schoolBathroomHour # agents[agentIndex].schoolBathroomHour
                    => agents[agentIndex]'.schoolBathroomHour \in 12 .. 17
              /\ agents[agentIndex]'.houseBathroomHour # agents[agentIndex].houseBathroomHour
                    => agents[agentIndex]'.houseBathroomHour \in 20 .. 23
              /\ previousDay' = previousDay =>
                    /\ agents[agentIndex]'.schoolBathroomHour
                            = agents[agentIndex].schoolBathroomHour
                    /\ agents[agentIndex]'.houseBathroomHour
                            = agents[agentIndex].houseBathroomHour
                    /\ agents[agentIndex].hasVisitedSchoolBathroomToday
                            => agents[agentIndex]'.hasVisitedSchoolBathroomToday
                    /\ agents[agentIndex].hasVisitedHouseBathroomToday
                            => agents[agentIndex]'.hasVisitedHouseBathroomToday]_vars

\* C15: while an agent's isTravelingToBathroom is true its targetLocation stays the
\* water body it set out for: no step other than resetSimulation changes the target
\* or clears the flag, except the tick in which the agent is snapped onto that water
\* body
C15_BathroomTripKeepsTarget ==
    [][(variant = "bathroom" /\ NotReset) =>
        \A agentIndex \in Indexes :
            agents[agentIndex].isTravelingToBathroom =>
                /\ agents[agentIndex].targetLocation \in {"schoolWater", "houseWater"}
                /\ \/ /\ agents[agentIndex]'.isTravelingToBathroom
                      /\ agents[agentIndex]'.targetLocation = agents[agentIndex].targetLocation
                   \/ /\ ~agents[agentIndex]'.isTravelingToBathroom
                      /\ Ticked
                      /\ \E arrival \in lastEvent'.arrivals :
                            /\ arrival.agent = agentIndex
                            /\ arrival.label = agents[agentIndex].targetLocation
                      /\ agents[agentIndex]'.currentLocation = agents[agentIndex].targetLocation
                      /\ [x |-> agents[agentIndex]'.x, y |-> agents[agentIndex]'.y]
                            = resolveItinerary(World, agents[agentIndex].targetLocation,
                                               agentIndex)]_vars

\* C15 witness: after a tick an agent is on its way to the school water body while
\* the hourly schedule names the school
C15_TravelingWhileScheduledElsewhere ==
    /\ variant = "bathroom"
    /\ lastEvent.name = "animate"
    /\ \E agentIndex \in Indexes :
            /\ agents[agentIndex].isTravelingToBathroom
            /\ agents[agentIndex].targetLocation = "schoolWater"
            /\ getAgentTargetLocation(agents[agentIndex], timeManager) = "school"

----------------------------------------------------------------------------
(* Infected agents after a reset *)

\* C16: in the multi-house variants agents 1 and 2 are the infected agents at load,
\* and right after resetSimulation exactly agents 1 and 2 have isInfected = true and
\* every other agent has isInfected = false
C16_ResetInfectsAgentsOneAndTwo ==
    (variant \in {"itinerary", "sim2", "bathroom"} /\ lastEvent.name \in {"load", "reset"})
        => \A agentIndex \in Indexes :
                agents[agentIndex].isInfected <=> agentIndex \in {1, 2}

----------------------------------------------------------------------------
(* sim2.js: contamination and infection events *)

\* some contamination or infection event of sim2.js has happened
Sim2EventOccurred ==
    \/ schoolWaterBody.infectedVisitCount > 0
    \/ schoolWaterBody.isContaminated
    \/ \E agentIndex \in Indexes :
            \/ houseWaterBodies[agentIndex].isContaminated
            \/ houses[agentIndex].isInfected
            \/ (agents[agentIndex].isInfected /\ agentIndex \notin {1, 2})

\* C17: in sim2.js, with the infected agent 1 active and the simulation running, the
\* contamination and infection events do occur (infected visits counted at the
\* school water body, the agent's house water body contaminated, the house infected
\* after the delay); in finite form: once a run has covered MaxSimTime of simulated
\* time (the school day from hour 8 to 17 and the evening and night at home), at
\* least one of these events has happened
C17_Sim2EventsOccur ==
    (/\ variant = "sim2"
     /\ isRunning
     /\ agents[1].isActive
     /\ agents[1].isInfected
     /\ timeManager.currentSimulationTime >= MaxSimTime)
        => Sim2EventOccurred

----------------------------------------------------------------------------
(* The animation loop *)

\* C18: a tick runs only while isRunning is true and at most one animation-frame
\* request is pending at any time (so ticks never overlap and a start never adds a
\* second loop); pause and reset cancel the pending request, so that while the
\* simulation is not running no request is pending and no tick can run until the
\* next start
C18_OneLoopOnlyWhileRunning ==
    /\ Cardinality(pendingFrames) <= 1
    /\ pendingFrames # {} => (isRunning /\ pendingFrames = {animationId})
    /\ ~isRunning => pendingFrames = {}
    /\ lastEvent.name \in {"pause", "reset"} => (~isRunning /\ pendingFrames = {})
    /\ lastEvent.name = "animate" => isRunning
    /\ lastEvent.name = "start" => (isRunning /\ Cardinality(pendingFrames) = 1)

\* C18 witness: the simulation was paused after a tick, time passed, and it has been
\* started again: exactly one request is pending
C18_OneRequestAfterResume ==
    /\ lastEvent.name = "start"
    /\ lastEvent.idle > 0
    /\ isRunning
    /\ Cardinality(pendingFrames) = 1
    /\ pendingFrames = {animationId}

----------------------------------------------------------------------------
(* Active agents *)

\* the indexes of the active agents
ActiveAgents == {agentIndex \in Indexes : agents[agentIndex].isActive}

\* C21: in the slider variants agent i is active iff i < activeAgentCount, so the
\* active agents are the prefix 0..n-1 and their number is activeAgentCount (all
\* agents when the count exceeds the length of the array); the slider is disabled
\* exactly while the simulation runs, and the active set and activeAgentCount change
\* only by a slider input while the simulation is not running
C21_ActivePrefixChangesOnlyWhenStopped ==
    /\ [](HasSlider =>
            /\ \A agentIndex \in Indexes :
                    agents[agentIndex].isActive <=> agentIndex < activeAgentCount
            /\ Cardinality(ActiveAgents) = Min(activeAgentCount, Count)
            /\ controls.sliderDisabled <=> isRunning)
    /\ [][(/\ HasSlider
           /\ \/ activeAgentCount' # activeAgentCount
              \/ \E agentIndex \in Indexes :
                    agents[agentIndex]'.isActive # agents[agentIndex].isActive)
            => /\ ~isRunning
               /\ ~isRunning'
               /\ lastEvent'.name = "slider"]_vars

\* C21 witness: after a run was paused the slider was moved to 1: agent 0 alone is
\* active
C21_SliderMovedAfterPause ==
    /\ HasSlider
    /\ lastEvent.name = "slider"
    /\ ~controls.resetDisabled
    /\ activeAgentCount = 1
    /\ ActiveAgents = {0}

\* C22: updateHouseInfectionState processes only the houses of active agents: while
\* agent i is inactive a tick changes neither houseWaterBodies[i].contaminatedTime
\* nor houses[i].isInfected, even if that water body is contaminated
C22_InactiveHouseNotProcessed ==
    [][(HasSlider /\ Ticked) =>
        \A agentIndex \in Indexes :
            ~agents[agentIndex].isActive =>
                /\ houseWaterBodies[agentIndex]'.contaminatedTime
                        = houseWaterBodies[agentIndex].contaminatedTime
                /\ houseWaterBodies[agentIndex]'.isContaminated
                        = houseWaterBodies[agentIndex].isContaminated
                /\ houses[agentIndex]'.isInfected = houses[agentIndex].isInfected]_vars

\* C22 witness: a tick has run while the agent of a contaminated house water body,
\* whose house is not infected yet, is inactive
C22_TickWithInactiveContaminatedHouse ==
    /\ HasSlider
    /\ lastEvent.name = "animate"
    /\ \E agentIndex \in Indexes :
            /\ ~agents[agentIndex].isActive
            /\ houseWaterBodies[agentIndex].isContaminated
            /\ houseWaterBodies[agentIndex].contaminatedTime < houseInfectionDelay
            /\ ~houses[agentIndex].isInfected

----------------------------------------------------------------------------
(* sim5.js: activation by day *)

\* C23: in sim5.js, while the simulated day is 1 only the agents of community 0 are
\* mobile and the agents of every other community do not move; from day 2 onward
\* every agent is active and mobile; an agent that is mobile stays mobile until
\* resetSimulation
C23_MobileByDay ==
    /\ [](variant = "sim5" =>
            /\ getCurrentDay(timeManager) = 1 =>
                    \A k \in Indexes :
                        agents[k].communityId # 0 =>
                            /\ ~agents[k].isMobile
                            /\ agents[k].x = agents[k].houseX
                            /\ agents[k].y = agents[k].houseY
            /\ getCurrentDay(timeManager) >= 2 =>
                    \A k \in Indexes : agents[k].isActive /\ agents[k].isMobile)
    /\ [][(variant = "sim5" /\ NotReset) =>
            \A k \in Indexes : agents[k].isMobile => agents[k]'.isMobile]_vars

----------------------------------------------------------------------------
(* Buttons *)

\* everything but the record of the last handler
SimulationState ==
    <<variant, agents, houses, houseWaterBodies, schoolWaterBody, waterbodies,
      timeManager, previousDay, activeAgentCount, isRunning, animationId,
      pendingFrames, sinceLastTimestamp, lastTimestampIsZero, controls>>

\* C24: in every reachable state the start button is disabled iff isRunning and the
\* pause button is disabled iff not isRunning; the reset button is disabled in the
\* initial state and after a reset until the next start, and at no other time;
\* startSimulation called while running and pauseSimulation called while not
\* running change nothing
C24_ButtonsFollowRunning ==
    /\ controls.resetDisabled
    /\ [](/\ controls.startDisabled <=> isRunning
          /\ controls.pauseDisabled <=> ~isRunning
          /\ isRunning => ~ENABLED (startSimulation /\ SimulationState' # SimulationState)
          /\ ~isRunning => ~ENABLED (pauseSimulation /\ SimulationState' # SimulationState))
    /\ [][controls'.resetDisabled =
            CASE lastEvent'.name = "reset" -> TRUE
              [] lastEvent'.name = "start" -> FALSE
              [] OTHER -> controls.resetDisabled]_vars

\* C24 witness: a run has been reset: start is enabled, pause and reset are disabled
C24_ButtonsAfterReset ==
    /\ lastEvent.name = "reset"
    /\ ~isRunning
    /\ ~controls.startDisabled
    /\ controls.pauseDisabled
    /\ controls.resetDisabled

----------------------------------------------------------------------------
(* Infection graph                                                         *)
(*                                                                         *)
(* logInfectionData and resetInfectionGraph of the infection graph         *)
(* tutorial, called as its closing lines instruct: logInfectionData when   *)
(* the day changes (the day-change branch of the bathroom variant's        *)
(* animate) and resetInfectionGraph when the simulation resets.  The       *)
(* infection flags, the slider value and the frame lengths are the inputs. *)

\* largest timeManager.currentSimulationTime (ms) the graph is logged to
MaxGraphTime == 36000

\* deltaTime of the ticks: a third of a simulated day, and a whole one
GraphDeltas == {4000, 12000}

\* graphConfig
graphConfig == [maxDays |-> 5, householdMultiplier |-> 3]

GraphEvent(name, deltaTime) == Event(name, {}, deltaTime, 0)

\* agents.filter(agent => agent.isActive && agent.isInfected).length
infectedAgentCount(as) ==
    Cardinality({index \in DOMAIN as : as[index].isActive /\ as[index].isInfected})

\* houses.filter((house, index) => agents[index].isActive && house.isInfected).length
infectedHouseholdCount(as, hs) ==
    Cardinality({index \in DOMAIN hs : as[index].isActive /\ hs[index].isInfected})

\* the counts with the inactive agents and their houses counted too
logInfectionData_countsInactive(data, as, hs, tm) ==
    LET currentDay == getCurrentDay(tm)
        agentCount == Cardinality({index \in DOMAIN as : as[index].isInfected})
        householdCount == Cardinality({index \in DOMAIN hs : hs[index].isInfected})
    IN  IF Len(data) > 0 /\ data[Len(data)].day = currentDay
          THEN data
          ELSE Append(data, [day |-> currentDay,
                             infectedAgents |-> agentCount,
                             infectedHouseholds |-> householdCount,
                             totalInfected |-> agentCount
                                + householdCount * graphConfig.householdMultiplier])

\* logInfectionData(): infectionData after the call
logInfectionData(data, as, hs, tm) ==
    LET currentDay == getCurrentDay(tm)
    IN  IF Len(data) > 0 /\ data[Len(data)].day = currentDay
          THEN data
          ELSE Append(data, [day |-> currentDay,
                             infectedAgents |-> infectedAgentCount(as),
                             infectedHouseholds |-> infectedHouseholdCount(as, hs),
                             totalInfected |-> infectedAgentCount(as)
                                + infectedHouseholdCount(as, hs)
                                    * graphConfig.householdMultiplier])

\* resetInfectionGraph(): infectionData after the call
resetInfectionGraph == <<>>

GraphInitFor(infectedAgents, infectedHouses, count) ==
    /\ variant = "bathroom"
    /\ infectionData = <<>>
    /\ agents = [index \in DOMAIN BathroomAgents |->
                    [updateActiveAgents(BathroomAgents, count)[index]
                        EXCEPT !.isInfected = index \in infectedAgents]]
    /\ houses = [index \in DOMAIN InitHouses |->
                    [InitHouses[index] EXCEPT !.isInfected = index \in infectedHouses]]
    /\ houseWaterBodies = InitHouseWaterBodies
    /\ schoolWaterBody = InitSchoolWaterBody("bathroom")
    /\ waterbodies = NoValue
    /\ timeManager = InitTimeManager
    /\ previousDay = 0
    /\ activeAgentCount = count
    /\ isRunning = TRUE
    /\ animationId = 0
    /\ pendingFrames = {}
    /\ sinceLastTimestamp = 0
    /\ lastTimestampIsZero = FALSE
    /\ controls = InitControls
    /\ lastEvent = GraphEvent("load", 0)

GraphInit ==
    \E infectedAgents \in SUBSET DOMAIN BathroomAgents,
       infectedHouses \in SUBSET DOMAIN InitHouses,
       count \in 0 .. NumAgents :
        GraphInitFor(infectedAgents, infectedHouses, count)

\* animate: updateTimeManager, then the day-change branch with logInfectionData
GraphTick ==
    \E deltaTime \in GraphDeltas :
        /\ timeManager.currentSimulationTime + deltaTime <= MaxGraphTime
        /\ timeManager' = updateTimeManager(timeManager, deltaTime)
        /\ IF timeManager'.currentDay # previousDay
             THEN /\ previousDay' = timeManager'.currentDay
                  /\ infectionData' = logInfectionData(infectionData, agents, houses,
                                                       timeManager')
             ELSE UNCHANGED <<previousDay, infectionData>>
        /\ lastEvent' = GraphEvent("animate", deltaTime)
        /\ UNCHANGED <<variant, agents, houses, houseWaterBodies, schoolWaterBody,
                       waterbodies, activeAgentCount, isRunning, animationId,
                       pendingFrames, sinceLastTimestamp, lastTimestampIsZero,
                       controls>>

\* the simulation infects an agent ...
GraphInfectAgent ==
    \E index \in DOMAIN agents :
        /\ ~agents[index].isInfected
        /\ agents' = [agents EXCEPT ![index].isInfected = TRUE]
        /\ lastEvent' = GraphEvent("infect", 0)
        /\ UNCHANGED <<variant, infectionData, houses, houseWaterBodies,
                       schoolWaterBody, waterbodies, timeManager, previousDay,
                       activeAgentCount, isRunning, animationId, pendingFrames,
                       sinceLastTimestamp, lastTimestampIsZero, controls>>

\* ... or a house
GraphInfectHouse ==
    \E index \in DOMAIN houses :
        /\ ~houses[index].isInfected
        /\ houses' = [houses EXCEPT ![index].isInfected = TRUE]
        /\ lastEvent' = GraphEvent("infect", 0)
        /\ UNCHANGED <<variant, infectionData, agents, houseWaterBodies,
                       schoolWaterBody, waterbodies, timeManager, previousDay,
                       activeAgentCount, isRunning, animationId, pendingFrames,
                       sinceLastTimestamp, lastTimestampIsZero, controls>>

\* the slider's listener: updateActiveAgents(count)
GraphSlide ==
    \E count \in 0 .. NumAgents :
        /\ count # activeAgentCount
        /\ activeAgentCount' = count
        /\ agents' = updateActiveAgents(agents, count)
        /\ lastEvent' = GraphEvent("slider", 0)
        /\ UNCHANGED <<variant, infectionData, houses, houseWaterBodies,
                       schoolWaterBody, waterbodies, timeManager, previousDay,
                       isRunning, animationId, pendingFrames, sinceLastTimestamp,
                       lastTimestampIsZero, controls>>

\* resetSimulation with resetInfectionGraph; previousDay is not written
GraphReset ==
    /\ timeManager.currentSimulationTime > 0
    /\ timeManager' = resetTimeManager(timeManager)
    /\ agents' = [index \in DOMAIN agents |->
                    [agents[index] EXCEPT !.isInfected = (index = 1 \/ index = 2)]]
    /\ houses' = resetHouses
    /\ infectionData' = resetInfectionGraph
    /\ lastEvent' = GraphEvent("reset", 0)
    /\ UNCHANGED <<variant, houseWaterBodies, schoolWaterBody, waterbodies,
                   previousDay, activeAgentCount, isRunning, animationId,
                   pendingFrames, sinceLastTimestamp, lastTimestampIsZero, controls>>

GraphNext ==
    \/ GraphTick
    \/ GraphInfectAgent
    \/ GraphInfectHouse
    \/ GraphSlide
    \/ GraphReset

GraphSpec == GraphInit /\ [][GraphNext]_vars

\* C25: logInfectionData, called at day changes, records at most one entry per
\* simulated day: between resets the days stored in infectionData are strictly
\* increasing, each entry's totalInfected is infectedAgents + 3 * infectedHouseholds,
\* the two counts being the infected active agents and the infected houses of active
\* agents at the moment of the call, and resetInfectionGraph empties the data
C25_OneEntryPerDay ==
    /\ [](/\ \A k \in 1 .. Len(infectionData) :
                infectionData[k].totalInfected
                    = infectionData[k].infectedAgents
                        + 3 * infectionData[k].infectedHouseholds
          /\ \A k \in 1 .. Len(infectionData) - 1 :
                infectionData[k].day < infectionData[k + 1].day)
    /\ [][/\ lastEvent'.name = "reset" => infectionData' = <<>>
          /\ lastEvent'.name # "reset" =>
                \/ infectionData' = infectionData
                \/ /\ lastEvent'.name = "animate"
                   /\ timeManager'.currentDay # timeManager.currentDay
                   /\ infectionData' = Append(infectionData,
                        [day |-> timeManager'.currentDay,
                         infectedAgents |->
                            Cardinality({i \in Indexes :
                                agents[i].isActive /\ agents[i].isInfected}),
                         infectedHouseholds |->
                            Cardinality({i \in Indexes :
                                agents[i].isActive /\ houses[i].isInfected}),
                         totalInfected |->
                            Cardinality({i \in Indexes :
                                agents[i].isActive /\ agents[i].isInfected})
                            + 3 * Cardinality({i \in Indexes :
                                agents[i].isActive /\ houses[i].isInfected})])]_vars

\* C25 witness: the second day has just been logged while an infected agent with an
\* infected house was inactive and an active agent's house was infected
C25_SecondDayLogged ==
    /\ lastEvent.name = "animate"
    /\ Len(infectionData) >= 2
    /\ infectionData[Len(infectionData)].day = timeManager.currentDay
    /\ infectionData[Len(infectionData)].infectedHouseholds >= 1
    /\ \E i \in Indexes :
            ~agents[i].isActive /\ agents[i].isInfected /\ houses[i].isInfected

\* C26: in the variants with a visit counter (sim2.js, the bathroom variant),
\* schoolWaterBody.infectedVisitCount never exceeds contaminationThreshold and
\* isContaminated is true iff infectedVisitCount >= contaminationThreshold; a tick in
\* which infected agents arrive at the school water body after it is contaminated
\* leaves the counter and the flag unchanged
C26_CounterStopsAtThreshold ==
    /\ [](variant \in {"sim2", "bathroom"} =>
            /\ schoolWaterBody.infectedVisitCount <= schoolWaterBody.contaminationThreshold
            /\ schoolWaterBody.isContaminated
                    <=> schoolWaterBody.infectedVisitCount
                            >= schoolWaterBody.contaminationThreshold)
    /\ [][(/\ variant \in {"sim2", "bathroom"}
           /\ Ticked
           /\ schoolWaterBody.isContaminated)
            => schoolWaterBody' = schoolWaterBody]_vars

\* C26 witness: agent 1, infected since the page loaded, has just arrived at the
\* school water body and found it contaminated, the counter being at the threshold
C26_InfectedArrivalAfterContamination ==
    /\ variant = "bathroom"
    /\ lastEvent.name = "animate"
    /\ schoolWaterBody.infectedVisitCount = schoolWaterBody.contaminationThreshold
    /\ \E a \in lastEvent.arrivals :
            a.agent = 1 /\ a.label = "schoolWater" /\ a.contaminated

\* the snaps of agent k in the tick just taken
ArrivalsOf(k) == {a \in lastEvent'.arrivals : a.agent = k}

\* C27: sim5.js: in a tick an agent's targetLocation changes exactly when the agent
\* arrives: arriving at 'house' sets the next target to 'visitOtherCommunity' and
\* arriving there sets it back to 'house'; the place reached is the one the target
\* named (the agent's house, or the centre of community targetCommunityId), and
\* currentLocation takes its label then and changes at no other tick
C27_TargetAlternatesOnArrival ==
    [][(variant = "sim5" /\ Ticked) =>
          \A k \in Indexes :
              IF ArrivalsOf(k) = {}
                THEN /\ agents'[k].targetLocation = agents[k].targetLocation
                     /\ agents'[k].currentLocation = agents[k].currentLocation
                ELSE /\ agents'[k].isMobile
                     /\ \A a \in ArrivalsOf(k) : a.label = agents[k].targetLocation
                     /\ agents'[k].currentLocation = agents[k].targetLocation
                     /\ agents'[k].targetLocation =
                            IF agents[k].targetLocation = "house"
                              THEN "visitOtherCommunity" ELSE "house"
                     /\ agents'[k].targetLocation # agents[k].targetLocation
                     /\ agents'[k].x =
                            IF agents'[k].currentLocation = "house"
                              THEN agents[k].houseX
                              ELSE communitiesPositions[agents[k].targetCommunityId + 1].x
                     /\ agents'[k].y =
                            IF agents'[k].currentLocation = "house"
                              THEN agents[k].houseY
                              ELSE communitiesPositions[agents[k].targetCommunityId + 1].y]_vars

\* C27 witness: an agent has just arrived at the centre of the community it visits
\* and its target is its house again
C27_ArrivedAtOtherCommunity ==
    /\ variant = "sim5"
    /\ lastEvent.name = "animate"
    /\ \E a \in lastEvent.arrivals :
            /\ a.label = "visitOtherCommunity"
            /\ agents[a.agent].currentLocation = "visitOtherCommunity"
            /\ agents[a.agent].targetLocation = "house"

\* what a tick of sim1.js or the itinerary variant does to agent k's walk
ItineraryTickOf(k) ==
    IF ArrivalsOf(k) = {}
      THEN /\ agents'[k].stepIndex = agents[k].stepIndex
           /\ agents'[k].isInfected = agents[k].isInfected
      ELSE /\ Cardinality(ArrivalsOf(k)) = 1
           /\ agents'[k].stepIndex = (agents[k].stepIndex + 1) % 6
           /\ \A a \in ArrivalsOf(k) :
                 /\ a.label = itinerary[agents[k].stepIndex + 1]
                 /\ a.label = CASE agents[k].stepIndex = 0 -> "school"
                                [] agents[k].stepIndex = 1 -> "schoolWater"
                                [] agents[k].stepIndex = 2 -> "school"
                                [] agents[k].stepIndex = 3 -> "house"
                                [] agents[k].stepIndex = 4 -> "houseWater"
                                [] agents[k].stepIndex = 5 -> "house"
                 /\ resolveItinerary(World, a.label, k)
                        = [x |-> agents'[k].x, y |-> agents'[k].y]
                 /\ agents'[k].isInfected =
                        (agents[k].isInfected
                            \/ (a.label = "schoolWater" /\ a.contaminated))

\* C28: sim1.js and the itinerary variant: stepIndex stays in 0..5; in a tick it
\* advances by one modulo 6 for an agent that arrives and stays for every other
\* agent, so the itinerary school, schoolWater, school, house, houseWater, house is
\* walked in that cyclic order; an arrival is recorded once, with the label
\* itinerary[stepIndex] of the place reached, and the infection rule is applied with
\* that label; outside ticks only a reset writes stepIndex
C28_StepIndexCycles ==
    /\ [](variant \in {"sim1", "itinerary"} =>
            \A k \in Indexes : agents[k].stepIndex \in 0 .. 5)
    /\ [][(variant \in {"sim1", "itinerary"}) =>
            \A k \in Indexes :
                IF Ticked THEN ItineraryTickOf(k)
                ELSE NotReset => agents'[k].stepIndex = agents[k].stepIndex]_vars

\* C28 witness: an agent has just arrived at its house at the end of the itinerary
\* and stepIndex is 0 again
C28_CycleCompleted ==
    /\ variant \in {"sim1", "itinerary"}
    /\ lastEvent.name = "animate"
    /\ \E a \in lastEvent.arrivals :
            a.label = "house" /\ agents[a.agent].stepIndex = 0

\* C29: within one tick time is advanced first, then a day change is handled, then
\* the agents move and the arrival rules fire, then house exposure accumulates:
\* the scheduler of the tick sees the advanced clock, and in the tick in which a house
\* water body becomes contaminated its timer already receives that tick's delta
\* (contaminatedTime equals the delta after the tick), so that a tick of 1500 ms or
\* more infects the house in the same tick as the contamination
C29_TickOrder ==
    [][Ticked =>
          /\ HasTimeManager =>
                timeManager' = updateTimeManager(timeManager, lastEvent'.deltaTime)
          /\ variant \in {"bathroom", "sim5"} =>
                previousDay' = IF timeManager'.currentDay # previousDay
                                 THEN timeManager'.currentDay ELSE previousDay
          /\ variant = "sim2" =>
                \A k \in Indexes :
                    agents[k].isActive =>
                        agents'[k].targetLocation =
                            ScheduledLabel(agents[k], getCurrentHour(timeManager'))
          /\ HasHouses =>
                \A i \in DOMAIN houseWaterBodies :
                    (~houseWaterBodies[i].isContaminated
                        /\ houseWaterBodies'[i].isContaminated) =>
                            /\ houseWaterBodies'[i].contaminatedTime = lastEvent'.deltaTime
                            /\ houses'[i].isInfected
                                    = (lastEvent'.deltaTime >= houseInfectionDelay)]_vars

\* C29 witness: in one tick of 1500 ms or more an infected agent has arrived at its
\* clean house water body, which is contaminated now with the tick's delta on its
\* timer, and the house is infected
C29_ContaminatedAndInfectedInOneTick ==
    /\ lastEvent.name = "animate"
    /\ lastEvent.deltaTime >= houseInfectionDelay
    /\ \E a \in lastEvent.arrivals :
            /\ a.label = "houseWater"
            /\ ~a.contaminated
            /\ agents[a.agent].isInfected
            /\ houseWaterBodies[a.agent].isContaminated
            /\ houseWaterBodies[a.agent].contaminatedTime = lastEvent.deltaTime
            /\ houses[a.agent].isInfected

\* C30: in every reachable state of the variants with houses, houses[i].isInfected
\* implies houseWaterBodies[i].isContaminated, and houseWaterBodies[i].isContaminated
\* implies agents[i].isInfected: a house is infected only with its water body
\* contaminated, and the water body only with its own agent infected; the states
\* right after a reset are among them
C30_HouseImpliesWaterImpliesAgent ==
    HasHouses =>
        \A i \in DOMAIN houses :
            /\ houses[i].isInfected => houseWaterBodies[i].isContaminated
            /\ houseWaterBodies[i].isContaminated => agents[i].isInfected
            /\ lastEvent.name = "reset" =>
                    ~houses[i].isInfected /\ ~houseWaterBodies[i].isContaminated

\* C30 witness: a house is infected, its water body contaminated and its agent
\* infected, while another agent is infected with a clean water body
C30_InfectedHouseholdAndInfectedAgent ==
    /\ HasHouses
    /\ \E i, j \in DOMAIN houses :
            /\ houses[i].isInfected
            /\ houseWaterBodies[i].isContaminated
            /\ agents[i].isInfected
            /\ agents[j].isInfected
            /\ ~houseWaterBodies[j].isContaminated
            /\ ~houses[j].isInfected

\* C31: an agent's isInfected goes from false to true only in a tick in which that
\* agent arrives at the school water body and finds schoolWaterBody.isContaminated
\* true; no other tick and no UI action (start, pause, reset, slider, sim1 toggle)
\* infects an uninfected agent
C31_InfectedOnlyAtContaminatedSchoolWater ==
    [][\A k \in Indexes :
          (~agents[k].isInfected /\ agents'[k].isInfected) =>
              /\ Ticked
              /\ \E a \in ArrivalsOf(k) : a.label = "schoolWater" /\ a.contaminated
              /\ schoolWaterBody'.isContaminated]_vars

\* C31 witness: bathroom variant: agent 0, uninfected when the page loads, has just
\* arrived at the contaminated school water body on the day after the water body's
\* contamination and is infected
C31_AgentZeroInfectedAtSchoolWater ==
    /\ variant = "bathroom"
    /\ lastEvent.name = "animate"
    /\ agents[0].isInfected
    /\ \E a \in lastEvent.arrivals :
            a.agent = 0 /\ a.label = "schoolWater" /\ a.contaminated

----------------------------------------------------------------------------
(* sim1.js running                                                         *)
(*                                                                         *)
(* The simulation of sim1.js kept running: animate after animate, with the *)
(* contaminate button and a reset followed by a new start in between.  The *)
(* frame deltas are the inputs; one of them is so short that a whole round *)
(* of the itinerary adds less than houseInfectionDelay.                    *)

\* frame-to-frame distances (ms): a short frame and a longer one
RunDeltas == {100, 110}

RunInit ==
    /\ variant = "sim1"
    /\ infectionData = <<>>
    /\ agents = InitAgents("sim1")
    /\ houses = [i \in {0} |-> Sim1House]
    /\ houseWaterBodies = [i \in {0} |-> Sim1HouseWaterBody]
    /\ schoolWaterBody = Sim1SchoolWaterBody
    /\ waterbodies = NoValue
    /\ timeManager = NoValue
    /\ previousDay = 0
    /\ activeAgentCount = 0
    /\ isRunning = TRUE
    /\ animationId = 0
    /\ pendingFrames = {}
    /\ sinceLastTimestamp = 0
    /\ lastTimestampIsZero = FALSE
    /\ controls = [InitControls EXCEPT !.startDisabled = TRUE, !.pauseDisabled = FALSE,
                                       !.resetDisabled = FALSE]
    /\ lastEvent = Event("start", {}, 0, 0)

\* animate(timestamp): updateAgentMovement(); updateHouseInfectionState(deltaTime)
RunTick ==
    \E deltaTime \in RunDeltas :
        /\ storeWorld(tickWorld(World, deltaTime), "animate", deltaTime)
        /\ UNCHANGED <<variant, infectionData, waterbodies, previousDay,
                       activeAgentCount, isRunning, animationId, pendingFrames,
                       sinceLastTimestamp, lastTimestampIsZero, controls>>

\* the contaminate button
RunContaminate ==
    /\ variant = "sim1"
    /\ Sim1_contaminateSchoolWaterbody

\* resetSimulation() and startSimulation(): the objects as reset
RunRestart ==
    /\ Sim1_resetObjects
    /\ lastEvent' = Event("reset", {}, 0, 0)
    /\ UNCHANGED <<variant, infectionData, previousDay, activeAgentCount, isRunning,
                   animationId, pendingFrames, sinceLastTimestamp,
                   lastTimestampIsZero, controls>>

RunNext == RunTick \/ RunContaminate \/ RunRestart

\* animate() requests the next frame on every tick, and the browser runs it
RunSpec == RunInit /\ [][RunNext]_vars /\ WF_vars(RunTick)

\* ticks from an arrival (registered) to the arrival at a target D half pixels away
LegTicks(D) == D \div speed + 1

\* ticks of one round of the itinerary of sim1.js
Sim1CycleTicks ==
    2 * LegTicks(Abs(Sim1SchoolWaterBody.x - school.x))
        + 2 * LegTicks(Abs(school.x - Sim1House.x))
        + 2 * LegTicks(Abs(Sim1House.x - Sim1HouseWaterBody.x))

\* the agent is infected, later (or then) the house water body is contaminated, and
\* later (or then) the house is infected
InfectionChain ==
    <>(agents[0].isInfected
        /\ <>(houseWaterBodies[0].isContaminated /\ <>houses[0].isInfected))

\* from now on the school water body stays contaminated and nothing is reset
StaysContaminated ==
    [](schoolWaterBody.isContaminated /\ lastEvent.name # "reset")

TickReachesDelay ==
    lastEvent.name = "animate" =>
        lastEvent.deltaTime * Sim1CycleTicks >= houseInfectionDelay

\* every tick from now on is that long
RoundsReachDelay == []TickReachesDelay

----------------------------------------------------------------------------
(* Bathroom trips of a simulated day (bathroom variant of part_000): the      *)
(* animation loop, pause, start/resume and the slider, with Math.random()     *)
(* returning 0 or 1/2, at one frame per simulated hour.  lastEvent also       *)
(* carries the simulated day and, per agent, the trips completed on that day. *)

\* Math.random() = 0 or 1/2: school slots 12 and 15, house slots 20 and 22
TripDraws == {[k |-> 0, of |-> 2], [k |-> 1, of |-> 2]}

TripDeltas == {500}

\* largest simulation time (ms) of this exploration: day 1, the 8000 ms
\* of simulated hours 8 to 24
MaxTripTime == 8000

NoTrips == [agentIndex \in AgentIds |-> [schoolWater |-> 0, houseWater |-> 0, counted |-> 0]]

TripEvent(name, arrivals, deltaTime, day, trips) ==
    [name |-> name, arrivals |-> arrivals, deltaTime |-> deltaTime, idle |-> 0,
     day |-> day, trips |-> trips]

\* the trips of the day after a tick from the agents before to the world w
TripsAfter(trips, before, countBefore, w) ==
    [agentIndex \in AgentIds |->
        LET at(label) == \E a \in w.arrivals : a.agent = agentIndex /\ a.label = label
        IN  [schoolWater |-> trips[agentIndex].schoolWater
                               + (IF at("schoolWater") THEN 1 ELSE 0),
             houseWater |-> trips[agentIndex].houseWater
                               + (IF at("houseWater") THEN 1 ELSE 0),
             counted |-> trips[agentIndex].counted
                            + (IF at("schoolWater") /\ before[agentIndex].isInfected
                                 THEN w.schoolWaterBody.infectedVisitCount - countBefore
                                 ELSE 0)]]

TripInit ==
    /\ variant = "bathroom"
    /\ infectionData = <<>>
    /\ agents = InitAgents("bathroom")
    /\ houses = InitHouses
    /\ houseWaterBodies = InitHouseWaterBodies
    /\ schoolWaterBody = BathroomSchoolWaterBody
    /\ waterbodies = NoValue
    /\ timeManager = InitTimeManager
    /\ previousDay = 0
    /\ activeAgentCount = initialActiveAgentCount
    /\ isRunning = FALSE
    /\ animationId = 0
    /\ pendingFrames = {}
    /\ sinceLastTimestamp = 0
    /\ lastTimestampIsZero = TRUE
    /\ controls = InitControls
    /\ lastEvent = TripEvent("load", {}, 0, getCurrentDay(InitTimeManager), NoTrips)

\* animate(): advance time, day change (new schedules), move, accumulate
TripTick ==
    \E deltaTime \in TripDeltas :
        /\ isRunning
        /\ timeManager.currentSimulationTime + deltaTime <= MaxTripTime
        /\ LET timed == [World EXCEPT !.timeManager = updateTimeManager(@, deltaTime)]
               currentDay == timed.timeManager.currentDay
               dayChanged == currentDay # previousDay
               day == getCurrentDay(timed.timeManager)
           IN  /\ previousDay' = IF dayChanged THEN currentDay ELSE previousDay
               /\ \E scheduled \in IF dayChanged
                                       THEN {[timed EXCEPT !.agents =
                                                 assignDailyBathroomSchedules(@, draws)] :
                                             draws \in DrawSetsOver(agents, TripDraws)}
                                       ELSE {timed} :
                     LET w == tickWorld(scheduled, deltaTime)
                     IN  /\ agents' = w.agents
                         /\ houses' = w.houses
                         /\ houseWaterBodies' = w.houseWaterBodies
                         /\ schoolWaterBody' = w.schoolWaterBody
                         /\ timeManager' = w.timeManager
                         /\ lastEvent' = TripEvent("animate", w.arrivals, deltaTime, day,
                                             TripsAfter(IF day # lastEvent.day
                                                          THEN NoTrips ELSE lastEvent.trips,
                                                        agents,
                                                        schoolWaterBody.infectedVisitCount, w))
        /\ UNCHANGED <<variant, infectionData, waterbodies, activeAgentCount, isRunning,
                       animationId, pendingFrames, sinceLastTimestamp, lastTimestampIsZero,
                       controls>>

\* startSimulation() by the start button, first start or resume
TripStart ==
    /\ ~controls.startDisabled
    /\ ~isRunning
    /\ isRunning' = TRUE
    /\ controls' = [controls EXCEPT !.startDisabled = TRUE, !.pauseDisabled = FALSE,
                                    !.resetDisabled = FALSE, !.sliderDisabled = TRUE]
    /\ \E draws \in DrawSetsOver(agents, TripDraws) :
          agents' = assignDailyBathroomSchedules(agents, draws)
    /\ lastEvent' = TripEvent("start", {}, 0, lastEvent.day, lastEvent.trips)
    /\ UNCHANGED <<variant, infectionData, houses, houseWaterBodies, schoolWaterBody,
                   waterbodies, timeManager, previousDay, activeAgentCount, animationId,
                   pendingFrames, sinceLastTimestamp, lastTimestampIsZero>>

\* pauseSimulation() by the pause button
TripPause ==
    /\ ~controls.pauseDisabled
    /\ isRunning
    /\ isRunning' = FALSE
    /\ controls' = [controls EXCEPT !.startDisabled = FALSE, !.pauseDisabled = TRUE,
                                    !.resetDisabled = FALSE, !.sliderDisabled = FALSE]
    /\ lastEvent' = TripEvent("pause", {}, 0, lastEvent.day, lastEvent.trips)
    /\ UNCHANGED <<variant, infectionData, agents, houses, houseWaterBodies, schoolWaterBody,
                   waterbodies, timeManager, previousDay, activeAgentCount, animationId,
                   pendingFrames, sinceLastTimestamp, lastTimestampIsZero>>

\* the slider's input listener: updateActiveAgents(parseInt(this.value))
TripSlide ==
    /\ ~controls.sliderDisabled
    /\ \E count \in SliderValues :
          /\ activeAgentCount' = count
          /\ agents' = updateActiveAgents(agents, count)
    /\ lastEvent' = TripEvent("slider", {}, 0, lastEvent.day, lastEvent.trips)
    /\ UNCHANGED <<variant, infectionData, houses, houseWaterBodies, schoolWaterBody,
                   waterbodies, timeManager, previousDay, isRunning, animationId,
                   pendingFrames, sinceLastTimestamp, lastTimestampIsZero, controls>>

TripNext == TripTick \/ TripStart \/ TripPause \/ TripSlide

TripSpec == TripInit /\ [][TripNext]_vars

\* C33: in the bathroom variant each agent completes at most one trip to the school
\* water body and at most one trip to its house water body within a simulated day,
\* and adds at most 1 to infectedVisitCount on that day, whatever the interleaving of
\* ticks with pause, resume and slider changes
C33_OneTripPerAgentPerDay ==
    \A agentIndex \in AgentIds :
        /\ lastEvent.trips[agentIndex].schoolWater <= 1
        /\ lastEvent.trips[agentIndex].houseWater <= 1
        /\ lastEvent.trips[agentIndex].counted <= 1

----------------------------------------------------------------------------
(* The stored day and the derived day (sim2.js, bathroom variant, sim5.js) *)

\* C34 as stated: in every reachable state, the initial state and the state right
\* after reset included, the stored timeManager.currentDay equals
\* getCurrentDay(timeManager)
C34_StoredDayIsDerivedDay ==
    HasTimeManager => timeManager.currentDay = getCurrentDay(timeManager)

\* C34: once a tick has advanced the simulation time (and until the next reset) the
\* stored timeManager.currentDay equals getCurrentDay(timeManager); as loaded and
\* right after reset the simulation time is 0 and the stored day is 0, which is the
\* derived day of the floor variant (sim2.js) and one less than the derived day 1 of
\* the ceil variants
C34_StoredDayIsDerivedDayAfterTick ==
    HasTimeManager =>
        IF timeManager.currentSimulationTime > 0
          THEN timeManager.currentDay = getCurrentDay(timeManager)
          ELSE /\ timeManager.currentDay = 0
               /\ getCurrentDay(timeManager) = IF variant = "sim2" THEN 0 ELSE 1

\* a sim5 tick has taken the simulation into day 2
C34_TickIntoDayTwo ==
    /\ variant = "sim5"
    /\ lastEvent.name = "animate"
    /\ timeManager.currentDay = 2
    /\ getCurrentDay(timeManager) = 2

----------------------------------------------------------------------------
(* Day numbers of the floor variant and of the ceil variants *)

\* floor(elapsed simulated hours + scheduleStartTime)
ClockWholeHours == ClockTotalMs \div 1000

\* C35: at every simulation time reached by ticks the day number of the ceil variants
\* (sim5.js, bathroom variant) is the day number of the floor variant (sim2.js) plus
\* one, and 24 * (day - 1) + currentHour = floor(elapsed simulated hours +
\* scheduleStartTime) in the ceil variants as 24 * day + currentHour is in the floor
\* variant
C35_CeilDayIsFloorDayPlusOne ==
    /\ getCurrentDayCeil(timeManager) = getCurrentDayFloor(timeManager) + 1
    /\ 24 * (getCurrentDay(timeManager) - (IF variant = "sim2" THEN 0 ELSE 1))
           + getCurrentHour(timeManager) = ClockWholeHours
====
